---- MODULE Spec2Model ----
(***************************************************************************)
(* Traceability tool chain of the documentation-governance scripts:        *)
(*   Scripts/generators/spec_parser.py      corpus -> build/spec-index.json *)
(*   Scripts/generators/build_trace_json.py index  -> build/traceability.json *)
(*   Scripts/generate-traceability-matrix.py corpus -> reports/*.md         *)
(* Texts, paths and identifiers are sequences of one-character strings, so *)
(* that the regular expressions of the scripts are computed character by   *)
(* character.                                                              *)
(***************************************************************************)
EXTENDS Integers, Sequences, FiniteSets, TLC

(***************************************************************************)
(* Characters and Python's str operations                                  *)
(***************************************************************************)
Upper == {"A","B","C","D","E","F","G","H","I","J","K","L","M","N","O","P","Q","R","S","T","U","V","W","X","Y","Z"}
Lower == {"a","b","c","d","e","f","g","h","i","j","k","l","m","n","o","p","q","r","s","t","u","v","w","x","y","z"}
Digit == {"0","1","2","3","4","5","6","7","8","9"}

\* The characters of the texts considered, in code point order.
CodePoints == <<"\n"," ","#",",","-",".","/","0","1","2","3","4","5","6","7","8","9",":","A","B","C","D","E","F","G","H","I","J","K","L","M","N","O","P","Q","R","S","T","U","V","W","X","Y","Z","_","a","b","c","d","e","f","g","h","i","j","k","l","m","n","o","p","q","r","s","t","u","v","w","x","y","z">>

Ord == [c \in {CodePoints[i] : i \in 1..Len(CodePoints)} |-> CHOOSE i \in 1..Len(CodePoints) : CodePoints[i] = c]

\* \w of the re module
IsWord(c) == c \in Upper \cup Lower \cup Digit \cup {"_"}
\* [A-Z0-9]
UpDigit == Upper \cup Digit
\* [A-Z0-9\-]
IdChar == Upper \cup Digit \cup {"-"}
Whitespace == {" ", "\n"}

Max(S) == CHOOSE x \in S : \A y \in S : y <= x
Min(S) == CHOOSE x \in S : \A y \in S : x <= y

\* s[i:i+len(lit)] == lit
HasAt(s, i, lit) == i >= 1 /\ i + Len(lit) - 1 <= Len(s) /\ SubSeq(s, i, i + Len(lit) - 1) = lit
StartsWith(s, lit) == HasAt(s, 1, lit)
EndsWith(s, lit) == Len(lit) <= Len(s) /\ HasAt(s, Len(s) - Len(lit) + 1, lit)
\* lit in s
Contains(s, lit) == \E i \in 1..(Len(s) + 1) : HasAt(s, i, lit)
\* s.find(lit) as a 1-based position, 0 when absent
Find(s, lit) == IF Contains(s, lit) THEN Min({i \in 1..(Len(s) + 1) : HasAt(s, i, lit)}) ELSE 0

\* s.strip(chars)
StripChars(s, chars) ==
    LET keep == {i \in 1..Len(s) : s[i] \notin chars}
    IN IF keep = {} THEN <<>> ELSE SubSeq(s, Min(keep), Max(keep))

\* s.splitlines() for texts whose only line break is "\n"
RECURSIVE SplitLines(_)
SplitLines(s) ==
    IF s = <<>> THEN <<>>
    ELSE LET nl == Find(s, <<"\n">>)
         IN IF nl = 0 THEN <<s>>
            ELSE <<SubSeq(s, 1, nl - 1)>> \o SplitLines(SubSeq(s, nl + 1, Len(s)))

\* a < b in Python's string order
RECURSIVE StrLess(_, _)
StrLess(a, b) ==
    IF b = <<>> THEN FALSE
    ELSE IF a = <<>> THEN TRUE
    ELSE IF a[1] # b[1] THEN Ord[a[1]] < Ord[b[1]]
    ELSE StrLess(Tail(a), Tail(b))

\* sorted(S) of a set of strings
RECURSIVE Sorted(_)
Sorted(S) ==
    IF S = {} THEN <<>>
    ELSE LET m == CHOOSE x \in S : \A y \in S : x = y \/ StrLess(x, y)
         IN <<m>> \o Sorted(S \ {m})

Range(q) == {q[i] : i \in 1..Len(q)}
NoRepeats(q) == \A m, n \in 1..Len(q) : q[m] = q[n] => m = n

\* \b at the gap before position i (1..Len(s)+1)
WordBoundary(s, i) ==
    LET before == i > 1 /\ IsWord(s[i - 1])
        after == i <= Len(s) /\ IsWord(s[i])
    IN before # after

\* Positions j >= k such that s[k..j] lies in cls; 0-length runs excluded
RunEnds(s, k, cls) == {j \in k..Len(s) : \A m \in k..j : s[m] \in cls}

(***************************************************************************)
(* spec_parser.py: patterns                                                *)
(***************************************************************************)
PREFIXES == {<<"S","t","R">>, <<"R","E","Q">>, <<"A","R","C">>, <<"A","D","R">>, <<"Q","A">>, <<"T","E","S","T">>}

\* [A-Z0-9][A-Z0-9\-]*\b from position k: the ends of all matches
IdTailEnds(s, k) ==
    IF k <= Len(s) /\ s[k] \in UpDigit
    THEN {j \in RunEnds(s, k, IdChar) : WordBoundary(s, j + 1)}
    ELSE {}

\* (?:StR|REQ|ARC|ADR|QA|TEST)-(?:[A-Z]{4}-)?[A-Z0-9][A-Z0-9\-]*\b matched at
\* position i: the end of the match the backtracking search returns (the
\* optional group is tried first, the star is greedy), 0 when there is none.
IdBodyEnd(s, i) ==
    LET pre == {p \in PREFIXES : HasAt(s, i, p \o <<"-">>)}
    IN IF pre = {} THEN 0
       ELSE LET p == CHOOSE p \in pre : TRUE
                k == i + Len(p) + 1
                grp == k + 4 <= Len(s) /\ (\A m \in k..(k + 3) : s[m] \in Upper) /\ s[k + 4] = "-"
                withGrp == IF grp THEN IdTailEnds(s, k + 5) ELSE {}
                without == IdTailEnds(s, k)
            IN IF withGrp # {} THEN Max(withGrp)
               ELSE IF without # {} THEN Max(without)
               ELSE 0

\* REF_PATTERN at position i
REF_PATTERN(s, i) == IF WordBoundary(s, i) THEN IdBodyEnd(s, i) ELSE 0

\* ID_PATTERN.match(line): anchored at the start of the line
ID_PATTERN(line) == IdBodyEnd(line, 1) # 0

\* \b(<lit>[A-Z0-9\-]+)\b at position i
LitRunWord(s, i, lit) ==
    IF WordBoundary(s, i) /\ HasAt(s, i, lit)
    THEN LET ends == {j \in RunEnds(s, i + Len(lit), IdChar) : WordBoundary(s, j + 1)}
         IN IF ends = {} THEN 0 ELSE Max(ends)
    ELSE 0

test_id_pattern(s, i) == LitRunWord(s, i, <<"T","E","S","T","-">>)
req_ref_pattern(s, i) == LitRunWord(s, i, <<"R","E","Q","-">>)

(***************************************************************************)
(* generate-traceability-matrix.py: PATTERNS (no \b: they match anywhere)  *)
(***************************************************************************)
\* <lit>\d{3} at position i
LitDigits3(s, i, lit) ==
    LET k == i + Len(lit)
    IN IF HasAt(s, i, lit) /\ k + 2 <= Len(s) /\ (\A m \in k..(k + 2) : s[m] \in Digit)
       THEN k + 2 ELSE 0

\* [A-Z0-9]+(?:[A-Z0-9]+)*<lit>\d{3} from position k
CodeDigits3(s, k, lit) ==
    LET ok == {j \in RunEnds(s, k, UpDigit) : LitDigits3(s, j + 1, lit) # 0}
    IN IF ok = {} THEN 0 ELSE LitDigits3(s, Max(ok) + 1, lit)

\* <lit>[A-Z0-9]+(?:[A-Z0-9]+)*-\d{3} at position i
LitCodeDigits3(s, i, lit) == IF HasAt(s, i, lit) THEN CodeDigits3(s, i + Len(lit), <<"-">>) ELSE 0

\* <lit>[A-Z0-9-]+ at position i (greedy)
LitRun(s, i, lit) ==
    LET ends == RunEnds(s, i + Len(lit), IdChar)
    IN IF HasAt(s, i, lit) /\ ends # {} THEN Max(ends) ELSE 0

\* first alternative that matches
Alt(a, b) == IF a # 0 THEN a ELSE b

PatternKeys == {"stakeholder_legacy", "requirement_legacy", "stakeholder", "system", "functional",
                "nonfunctional", "interface", "verification", "acceptance", "usecase", "userstory",
                "adr", "component", "scenario", "test"}

PATTERNS(key, s, i) ==
    CASE key = "stakeholder_legacy" -> LitDigits3(s, i, <<"S","t","R","-">>)
      [] key = "requirement_legacy" -> Alt(LitDigits3(s, i, <<"R","E","Q","-","F","-">>), LitDigits3(s, i, <<"R","E","Q","-","N","F","-">>))
      [] key = "stakeholder" -> LitCodeDigits3(s, i, <<"R","E","Q","-","S","T","K","-">>)
      [] key = "system" -> LitCodeDigits3(s, i, <<"R","E","Q","-","S","Y","S","-">>)
      [] key = "functional" -> LitCodeDigits3(s, i, <<"R","E","Q","-","F","U","N","-">>)
      [] key = "nonfunctional" -> LitCodeDigits3(s, i, <<"R","E","Q","-","N","F","R","-">>)
      [] key = "interface" -> LitCodeDigits3(s, i, <<"I","R","-">>)
      [] key = "verification" -> LitCodeDigits3(s, i, <<"V","R","-">>)
      [] key = "acceptance" -> LitCodeDigits3(s, i, <<"A","C","-">>)
      [] key = "usecase" -> LitCodeDigits3(s, i, <<"U","C","-">>)
      [] key = "userstory" -> CodeDigits3(s, i, <<"-","U","S","-">>)
      [] key = "adr" -> LitDigits3(s, i, <<"A","D","R","-">>)
      [] key = "component" -> LitDigits3(s, i, <<"A","R","C","-","C","-">>)
      [] key = "scenario" -> LitDigits3(s, i, <<"Q","A","-","S","C","-">>)
      [] key = "test" -> LitRun(s, i, <<"T","E","S","T","-">>)

\* The placeholder patterns main strips: ADR-XXX and REQ-(F|NF)-000
Literal(s, i, lit) == IF HasAt(s, i, lit) THEN i + Len(lit) - 1 ELSE 0
PlaceholderAdr(s, i) == Literal(s, i, <<"A","D","R","-","X","X","X">>)
PlaceholderReq(s, i) == Alt(Literal(s, i, <<"R","E","Q","-","F","-","0","0","0">>), Literal(s, i, <<"R","E","Q","-","N","F","-","0","0","0">>))

\* pattern.findall(s): the non-overlapping matches, scanning from the left;
\* ends[i] is the end of the match of the pattern at position i, 0 for none
FindAll(ends, s) ==
    LET From[i \in 1..(Len(s) + 1)] ==
            IF i > Len(s) THEN <<>>
            ELSE IF ends[i] = 0 THEN From[i + 1]
            ELSE <<SubSeq(s, i, ends[i])>> \o From[ends[i] + 1]
    IN From[1]

\* pattern.sub('', s)
ReSub(ends, s) ==
    LET From[i \in 1..(Len(s) + 1)] ==
            IF i > Len(s) THEN <<>>
            ELSE IF ends[i] = 0 THEN <<s[i]>> \o From[i + 1]
            ELSE From[ends[i] + 1]
    IN From[1]

RefFindAll(s) == FindAll([i \in 1..Len(s) |-> REF_PATTERN(s, i)], s)
TestIdFindAll(s) == FindAll([i \in 1..Len(s) |-> test_id_pattern(s, i)], s)
ReqRefFindAll(s) == FindAll([i \in 1..Len(s) |-> req_ref_pattern(s, i)], s)
PatternFindAll(key, s) == FindAll([i \in 1..Len(s) |-> PATTERNS(key, s, i)], s)

SCAN_DIRS == <<<<"0","2","-","r","e","q","u","i","r","e","m","e","n","t","s">>, <<"0","3","-","a","r","c","h","i","t","e","c","t","u","r","e">>>>

CODE_TEST_DIRS == <<<<"0","5","-","i","m","p","l","e","m","e","n","t","a","t","i","o","n","/","t","e","s","t","s">>>>

IGNORE_PATTERNS == {<<".","g","i","t","h","u","b","/","c","o","p","i","l","o","t","-","i","n","s","t","r","u","c","t","i","o","n","s",".","m","d">>, <<"A","D","R","-","t","e","m","p","l","a","t","e",".","m","d">>, <<"u","s","e","r","-","s","t","o","r","y","-","t","e","m","p","l","a","t","e",".","m","d">>, <<"a","r","c","h","i","t","e","c","t","u","r","e","-","s","p","e","c",".","m","d">>, <<"r","e","q","u","i","r","e","m","e","n","t","s","-","s","p","e","c",".","m","d">>}

\* The extensions of test source files, in the order main() globs them
TEST_EXTS == <<<<".","c","p","p">>, <<".","c","c">>, <<".","c">>, <<".","h","p","p">>, <<".","h">>, <<".","p","y">>>>

(***************************************************************************)
(* pathlib: relative POSIX paths as strings                                *)
(***************************************************************************)
\* path.name
PathName(path) ==
    LET slashes == {i \in 1..Len(path) : path[i] = "/"}
    IN IF slashes = {} THEN path ELSE SubSeq(path, Max(slashes) + 1, Len(path))

\* path.suffix
PathSuffix(path) ==
    LET name == PathName(path)
        dots == {i \in 2..Len(name) : name[i] = "."}
    IN IF dots = {} THEN <<>> ELSE SubSeq(name, Max(dots), Len(name))

\* path.stem
PathStem(path) ==
    LET name == PathName(path)
    IN SubSeq(name, 1, Len(name) - Len(PathSuffix(path)))

\* path.parts
RECURSIVE PathParts(_)
PathParts(path) ==
    LET sl == Find(path, <<"/">>)
    IN IF sl = 0 THEN {path}
       ELSE {SubSeq(path, 1, sl - 1)} \cup PathParts(SubSeq(path, sl + 1, Len(path)))

\* path is below directory base (base.rglob reaches it)
Under(base, path) == StartsWith(path, base \o <<"/">>)

(***************************************************************************)
(* spec_parser.py: functions                                               *)
(***************************************************************************)
is_ignored(path) == \E p \in IGNORE_PATTERNS : Contains(path, p)

\* FRONT_MATTER_RE = ^---\n(.*?)\n---\n with DOTALL: whether it matches at the
\* start of the text, and its group 1 (the shortest block)
FRONT_MATTER_RE(text) ==
    LET close == {e \in 5..Len(text) : HasAt(text, e, <<"\n","-","-","-","\n">>)}
    IN IF StartsWith(text, <<"-","-","-","\n">>) /\ close # {}
       THEN [matched |-> TRUE, block |-> SubSeq(text, 5, Min(close) - 1)]
       ELSE [matched |-> FALSE, block |-> <<>>]

\* The dict extract_front_matter returns, as a function on its keys
extract_front_matter(text) ==
    LET m == FRONT_MATTER_RE(text)
    IN IF ~m.matched THEN <<>>
       ELSE LET lines == SplitLines(m.block)
                kv == {n \in 1..Len(lines) : Contains(lines[n], <<":">>)}
                Key(n) == StripChars(SubSeq(lines[n], 1, Find(lines[n], <<":">>) - 1), Whitespace)
                Val(n) == StripChars(SubSeq(lines[n], Find(lines[n], <<":">>) + 1, Len(lines[n])), Whitespace)
            IN [k \in {Key(n) : n \in kv} |-> Val(Max({n \in kv : Key(n) = k}))]

\* fm.get(key); a missing key and an empty value are both falsy: <<>>
FmGet(fm, key) == IF key \in DOMAIN fm THEN fm[key] ELSE <<>>

\* build_item without the r != id_ filter
ItemRefsWithSelf(id, full_text) == Range(RefFindAll(full_text))

\* The identifier set of build_item, before sorting
ItemRefs(id, full_text) == {r \in Range(RefFindAll(full_text)) : r # id}

\* The sha1 digest of the text is left out: no script reads it.
build_item(id, title, path, full_text) ==
    [id |-> id, title |-> title, path |-> path, references |-> Sorted(ItemRefs(id, full_text))]

\* The ids of one line appended to items (the inner loop of parse_file)
RECURSIVE ParseIds(_, _, _, _, _, _, _)
ParseIds(items, ids, idx, line, primary_id, path, text) ==
    IF idx > Len(ids) THEN items
    ELSE LET id == ids[idx]
             skip == (primary_id # <<>> /\ id = primary_id) \/ (\E n \in 1..Len(items) : items[n].id = id)
             remainder == StripChars(SubSeq(line, Find(line, id) + Len(id), Len(line)), {" ", "-", ":", ","})
             title == IF idx = 1 /\ remainder # <<>> THEN remainder ELSE PathStem(path)
         IN ParseIds(IF skip THEN items ELSE Append(items, build_item(id, title, path, text)),
                     ids, idx + 1, line, primary_id, path, text)

\* The loop of parse_file over the lines of the text
RECURSIVE ParseLines(_, _, _, _, _, _)
ParseLines(items, lines, n, primary_id, path, text) ==
    IF n > Len(lines) THEN items
    ELSE LET line == StripChars(StripChars(lines[n], {"#", " "}), Whitespace)
         IN ParseLines(IF ID_PATTERN(line)
                       THEN ParseIds(items, RefFindAll(line), 1, line, primary_id, path, text)
                       ELSE items,
                       lines, n + 1, primary_id, path, text)

parse_file(path, text) ==
    LET fm == extract_front_matter(text)
        primary_id == FmGet(fm, <<"i","d">>)
        title == IF FmGet(fm, <<"t","i","t","l","e">>) # <<>> THEN FmGet(fm, <<"t","i","t","l","e">>) ELSE PathStem(path)
        first == IF primary_id # <<>> THEN <<build_item(primary_id, title, path, text)>> ELSE <<>>
    IN ParseLines(first, SplitLines(text), 1, primary_id, path, text)

\* The items main() appends for one test source file
test_items(path, text) ==
    LET test_ids == Sorted(Range(TestIdFindAll(text)))
        req_refs == Sorted(Range(ReqRefFindAll(text)))
    IN [n \in 1..Len(test_ids) |->
          [id |-> test_ids[n], title |-> PathStem(path), path |-> path, references |-> req_refs]]

\* De-duplication that lets a later occurrence overwrite the first
RECURSIVE DedupKeepLast(_, _, _, _)
DedupKeepLast(all_items, n, dedup, duplicates) ==
    IF n > Len(all_items) THEN [items |-> dedup, duplicateIds |-> duplicates]
    ELSE LET item == all_items[n]
             seen == \E m \in 1..Len(dedup) : dedup[m].id = item.id
         IN IF seen
            THEN DedupKeepLast(all_items, n + 1,
                       [m \in 1..Len(dedup) |-> IF dedup[m].id = item.id THEN item ELSE dedup[m]],
                       IF item.id \in Range(duplicates) THEN duplicates ELSE Append(duplicates, item.id))
            ELSE DedupKeepLast(all_items, n + 1, Append(dedup, item), duplicates)

\* De-duplication by id, keeping the first occurrence: dedup and the keys of
\* duplicates in insertion order (the counts are only printed)
RECURSIVE Dedup(_, _, _, _)
Dedup(all_items, n, dedup, duplicates) ==
    IF n > Len(all_items) THEN [items |-> dedup, duplicateIds |-> duplicates]
    ELSE LET item == all_items[n]
             seen == \E m \in 1..Len(dedup) : dedup[m].id = item.id
         IN IF seen
            THEN Dedup(all_items, n + 1, dedup,
                       IF item.id \in Range(duplicates) THEN duplicates ELSE Append(duplicates, item.id))
            ELSE Dedup(all_items, n + 1, Append(dedup, item), duplicates)

(***************************************************************************)
(* build_trace_json.py                                                     *)
(***************************************************************************)
ItemIds(items) == {items[n].id : n \in 1..Len(items)}

PREFIX_ORDER == <<<<"S","t","R">>, <<"R","E","Q">>, <<"A","R","C">>, <<"A","D","R">>, <<"Q","A">>, <<"T","E","S","T">>>>

\* forward = {i['id']: i.get('references', []) for i in items}
Forward(items) ==
    [id \in {items[n].id : n \in 1..Len(items)} |->
        items[Max({n \in 1..Len(items) : items[n].id = id})].references]

\* The keys of forward in insertion order (a dict keeps the place of the
\* first insertion of a key)
ForwardKeys(items) ==
    LET first == {n \in 1..Len(items) : \A m \in 1..(n - 1) : items[m].id # items[n].id}
        Nth[k \in 1..Cardinality(first)] == CHOOSE n \in first : Cardinality({m \in first : m < n}) = k - 1
    IN [k \in 1..Cardinality(first) |-> items[Nth[k]].id]

\* backward[r].append(src) for src, refs in forward.items() for r in refs
RECURSIVE BackwardFrom(_, _, _, _)
BackwardFrom(keys, forward, k, backward) ==
    IF k > Len(keys) THEN backward
    ELSE LET src == keys[k]
             refs == forward[src]
             added == [r \in DOMAIN backward \cup Range(refs) |->
                        LET old == IF r \in DOMAIN backward THEN backward[r] ELSE <<>>
                            times == Cardinality({n \in 1..Len(refs) : refs[n] = r})
                        IN old \o [n \in 1..times |-> src]]
         IN BackwardFrom(keys, forward, k + 1, added)

\* backward[r] = [src] instead of backward[r].append(src)
BackwardOverwrite(items) ==
    LET keys == ForwardKeys(items)
        forward == Forward(items)
        refd == UNION {Range(forward[k]) : k \in Range(keys)}
    IN [r \in refd |-> <<keys[Max({k \in 1..Len(keys) : r \in Range(forward[keys[k]])})]>>]

Backward(items) == BackwardFrom(ForwardKeys(items), Forward(items), 1, <<>>)

\* with / total * 100 without the guard for an empty category
CoveragePctUnguarded(with, total) == [num |-> with * 100, den |-> total]

\* (with / total * 100) if total else 100.0, as an exact fraction
CoveragePct(with, total) ==
    IF total # 0 THEN [num |-> with * 100, den |-> total] ELSE [num |-> 100, den |-> 1]

\* The six per-prefix metrics; the key of a prefix is the prefix itself
\* ('requirement' for REQ, lower case for the others)
PrefixMetric(items, prefix) ==
    LET forward == Forward(items)
        ids == {n \in 1..Len(items) : StartsWith(items[n].id, prefix)}
        linked == {n \in ids : \E k \in 1..Len(forward[items[n].id]) : forward[items[n].id][k] # <<>>}
    IN [total |-> Cardinality(ids), with_links |-> Cardinality(linked),
        coverage_pct |-> CoveragePct(Cardinality(linked), Cardinality(ids))]

\* reverse_links[target][ref]: the ids of the ADR / QA / TEST items that list
\* requirement ref in their references
ReverseLinks(items, target, ref) ==
    {items[n].id : n \in {n \in 1..Len(items) :
        /\ \E p \in {<<"A","D","R">>, <<"Q","A">>, <<"T","E","S","T">>} : StartsWith(items[n].id, p)
        /\ ref \in Range(items[n].references)
        /\ StartsWith(ref, <<"R","E","Q">>)
        /\ target = (IF StartsWith(items[n].id, <<"A","D","R">>) THEN <<"A","D","R">>
                     ELSE IF StartsWith(items[n].id, <<"Q","A">>) THEN <<"Q","A">>
                     ELSE <<"T","E","S","T">>)}}

\* req_link_stat counting forward references only
req_link_stat_forward_only(items, target_prefix) ==
    LET forward == Forward(items)
        req_ids == {n \in 1..Len(items) : StartsWith(items[n].id, <<"R","E","Q">>)}
        HasForward(n) == \E k \in 1..Len(forward[items[n].id]) : StartsWith(forward[items[n].id][k], target_prefix)
        with == {n \in req_ids : HasForward(n)}
    IN [total_requirements |-> Cardinality(req_ids),
        requirements_with_link |-> Cardinality(with),
        coverage_pct |-> CoveragePct(Cardinality(with), Cardinality(req_ids)),
        details |-> [rid \in {items[n].id : n \in req_ids} |->
                       [forward_refs |-> SelectSeq(forward[rid], LAMBDA r : StartsWith(r, target_prefix)),
                        reverse_refs |-> Sorted(ReverseLinks(items, target_prefix, rid))]]]

SelectPrefix(refs, prefix) == SelectSeq(refs, LAMBDA r : StartsWith(r, prefix))

req_link_stat(items, target_prefix) ==
    LET forward == Forward(items)
        req_ids == {n \in 1..Len(items) : StartsWith(items[n].id, <<"R","E","Q">>)}
        HasForward(n) == \E k \in 1..Len(forward[items[n].id]) : StartsWith(forward[items[n].id][k], target_prefix)
        RevSet(n) == ReverseLinks(items, target_prefix, items[n].id)
        with == {n \in req_ids : HasForward(n) \/ RevSet(n) # {}}
    IN [total_requirements |-> Cardinality(req_ids),
        requirements_with_link |-> Cardinality(with),
        coverage_pct |-> CoveragePct(Cardinality(with), Cardinality(req_ids)),
        details |-> [rid \in {items[n].id : n \in req_ids} |->
                       [forward_refs |-> SelectPrefix(forward[rid], target_prefix),
                        reverse_refs |-> Sorted(ReverseLinks(items, target_prefix, rid))]]]

(***************************************************************************)
(* generate-traceability-matrix.py: functions                              *)
(***************************************************************************)
\* s.lower()
LowerOf == [c \in Upper |-> CHOOSE l \in Lower : Ord[l] - Ord["a"] = Ord[c] - Ord["A"]]
ToLower(s) == [i \in 1..Len(s) |-> IF s[i] \in Upper THEN LowerOf[s[i]] ELSE s[i]]

\* text.split('---', 2)[1] of a text that starts with '---'
SplitSecond(text) ==
    LET rest == SubSeq(text, 4, Len(text))
        nxt == Find(rest, <<"-","-","-">>)
    IN IF nxt = 0 THEN rest ELSE SubSeq(rest, 1, nxt - 1)

\* yaml.safe_load of a block of 'key: value' lines with plain scalars: the
\* mapping; any other non-blank line makes the result unusable (an exception
\* or a non-mapping, both of which is_guidance swallows)
YamlLoad(block) ==
    LET lines == SplitLines(block)
        used == {n \in 1..Len(lines) : StripChars(lines[n], Whitespace) # <<>>}
        IsPair(n) == Contains(lines[n], <<":"," ">>) \/ EndsWith(StripChars(lines[n], Whitespace), <<":">>)
        Key(n) == StripChars(SubSeq(lines[n], 1, Find(lines[n], <<":">>) - 1), Whitespace)
        Val(n) == StripChars(SubSeq(lines[n], Find(lines[n], <<":">>) + 1, Len(lines[n])), Whitespace)
    IN IF \A n \in used : IsPair(n)
       THEN [ok |-> TRUE, map |-> [k \in {Key(n) : n \in used} |-> Val(Max({n \in used : Key(n) = k}))]]
       ELSE [ok |-> FALSE, map |-> <<>>]

is_guidance(path, text) ==
    \/ Contains(path, <<".","g","i","t","h","u","b","/","p","r","o","m","p","t","s">>)
    \/ Contains(ToLower(PathName(path)), <<"c","o","p","i","l","o","t","-","i","n","s","t","r","u","c","t","i","o","n","s",".","m","d">>)
    \/ Contains(PathName(path), <<"A","D","R","-","t","e","m","p","l","a","t","e",".","m","d">>)
    \/ /\ StartsWith(text, <<"-","-","-">>)
       /\ LET meta == YamlLoad(SplitSecond(text))
          IN meta.ok /\ <<"s","p","e","c","T","y","p","e">> \in DOMAIN meta.map /\ meta.map[<<"s","p","e","c","T","y","p","e">>] = <<"g","u","i","d","a","n","c","e">>

\* ROOT.rglob('*.md') yields the file and the loop keeps it
MatrixScanned(path, text) ==
    /\ EndsWith(PathName(path), <<".","m","d">>)
    /\ <<"n","o","d","e","_","m","o","d","u","l","e","s">> \notin PathParts(path)
    /\ <<"r","e","p","o","r","t","s">> \notin PathParts(path)
    /\ ~is_guidance(path, text)

\* The text the patterns are applied to: placeholders stripped
StripAdr(text) == ReSub([i \in 1..Len(text) |-> PlaceholderAdr(text, i)], text)
StripReq(text) == ReSub([i \in 1..Len(text) |-> PlaceholderReq(text, i)], text)
Stripped(text) == StripReq(StripAdr(text))

\* pat.findall on the stripped text, per pattern key
MatrixIds(stripped) == [key \in PatternKeys |-> Range(PatternFindAll(key, stripped))]

requirement_patterns == {"requirement_legacy", "stakeholder", "system", "functional", "nonfunctional",
                         "interface", "verification", "acceptance"}

(***************************************************************************)
(* The corpus: files of the repository, each with one of a few texts       *)
(***************************************************************************)
\* At most this many files exist in the repository
MaxFiles == 2

Files == {"a_md", "b_md", "readme_md", "adr_template_md", "prompt_md", "t_py"}

PathOf ==
    [a_md |-> <<"0","2","-","r","e","q","u","i","r","e","m","e","n","t","s","/","a",".","m","d">>,
     b_md |-> <<"0","2","-","r","e","q","u","i","r","e","m","e","n","t","s","/","b",".","m","d">>,
     readme_md |-> <<"0","3","-","a","r","c","h","i","t","e","c","t","u","r","e","/","R","E","A","D","M","E",".","m","d">>,
     adr_template_md |-> <<"0","3","-","a","r","c","h","i","t","e","c","t","u","r","e","/","A","D","R","-","t","e","m","p","l","a","t","e",".","m","d">>,
     prompt_md |-> <<".","g","i","t","h","u","b","/","p","r","o","m","p","t","s","/","p",".","m","d">>,
     t_py |-> <<"0","5","-","i","m","p","l","e","m","e","n","t","a","t","i","o","n","/","t","e","s","t","s","/","t",".","p","y">>]

Texts == {"req_adr", "adr_req", "req_qa_test", "guidance", "placeholders", "test_req"}

\* Further documents: a requirement that mentions nothing else, a front
\* matter id outside the taxonomy, and a file whose read_text() raises
ExtraTexts == {"req_only", "foreign_id", "unreadable"}
\* A document without any identifier
PlainTexts == {"plain"}
\* An interface requirement that nothing else mentions
InterfaceTexts == {"interface_req"}
\* A requirement whose front matter id and heading id differ in punctuation only
AliasTexts == {"alias_id"}
AllTexts == Texts \cup ExtraTexts \cup PlainTexts \cup InterfaceTexts \cup AliasTexts
Readable == AllTexts \ {"unreadable"}

TextOf ==
    [req_adr |-> <<"#"," ","R","E","Q","-","F","-","0","0","1"," ","L","o","g","i","n","\n","s","e","e"," ","A","D","R","-","0","0","1","\n">>,
     adr_req |-> <<"A","D","R","-","0","0","1","\n","f","o","r"," ","R","E","Q","-","F","-","0","0","1","\n">>,
     req_qa_test |-> <<"R","E","Q","-","F","-","0","0","1","\n","Q","A","-","S","C","-","0","0","1"," ","T","E","S","T","-","B","-","0","2","\n">>,
     guidance |-> <<"-","-","-","\n","s","p","e","c","T","y","p","e",":"," ","g","u","i","d","a","n","c","e","\n","i","d",":"," ","R","E","Q","-","F","-","0","0","2","\n","-","-","-","\n","A","R","C","-","C","-","0","0","1","\n">>,
     placeholders |-> <<"R","E","Q","-","F","-","0","0","2"," ","A","D","R","-","X","X","X","\n","R","E","Q","-","N","F","-","0","0","0","\n">>,
     test_req |-> <<"T","E","S","T","-","A","-","0","1"," ","R","E","Q","-","F","-","0","0","1","\n">>,
     plain |-> <<"#"," ","O","v","e","r","v","i","e","w","\n","n","o","t","h","i","n","g"," ","h","e","r","e","\n">>,
     interface_req |-> <<"I","R","-","P","T","P","-","0","0","1","\n">>,
     req_only |-> <<"R","E","Q","-","F","-","0","0","1","\n">>,
     foreign_id |-> <<"-","-","-","\n","i","d",":"," ","F","O","O","-","1","\n","-","-","-","\n","R","E","Q","-","F","-","0","0","1","\n">>,
     alias_id |-> <<"-","-","-","\n","i","d",":"," ","R","E","Q",".","F",".","0","0","1","\n","-","-","-","\n","#"," ","R","E","Q","-","F","-","0","0","1"," ","L","o","g","i","n","\n">>]

FileAt(path) == CHOOSE f \in Files : PathOf[f] = path

VARIABLES
    corpus,        \* file -> the text it holds, or "none" when it does not exist
    specIndex,     \* build/spec-index.json
    allItems,      \* all_items of the last spec_parser run, before de-duplication
    traceability,  \* build/traceability.json
    reports,       \* reports/traceability-matrix.md and reports/orphans.md
    exitCode,      \* stage -> return code of its last run, -1 before its first
    allowEmptySpecs, \* whether ALLOW_EMPTY_SPECS is set in the environment of the runs
    unlinked,      \* the list trace_unlinked_requirements printed last
    coverage,      \* a run of validate-trace-coverage: the file it reads, its arguments, its return code
    integrity,     \* a requirements database of enforce-traceability and what its cycle detection gave
    enforcer,      \* a run of enforce-traceability: its arguments, the repository, what it left
    registry,      \* the requirement id registry, the numbers in the documents, the lists handed out
    genTests,      \* the generated test directory and the return code of the last gen_tests run
    guard,         \* a call of guard_command: the command, what it does to the work tree, the runs so far
    safety         \* the phase directories and reports of a repository, the backup taken of them, the last rollback

pipelineVars == <<corpus, specIndex, allItems, traceability, reports, exitCode, allowEmptySpecs, unlinked>>
toolVars == <<coverage, integrity, enforcer, registry, genTests, guard, safety>>
vars == <<pipelineVars, toolVars>>

Stages == {"spec_parser", "build_trace_json", "generate_traceability_matrix",
           "trace_unlinked_requirements", "validate_traceability"}

Present == {f \in Files : corpus[f] # "none"}
Content(f) == TextOf[corpus[f]]

\* The orders in which a directory traversal may enumerate the files of S
Orders(S) == {q \in [1..Cardinality(S) -> S] : \A i, j \in 1..Cardinality(S) : q[i] = q[j] => i = j}

RECURSIVE Concat(_)
Concat(qq) == IF qq = <<>> THEN <<>> ELSE Head(qq) \o Concat(Tail(qq))

\* parse_file and the test item construction, once per (file, text)
\* (a file that cannot be read is skipped with a warning)
ParsedFile == [f \in Files, t \in AllTexts |-> IF t \in Readable THEN parse_file(PathOf[f], TextOf[t]) ELSE <<>>]
ParsedTest == [f \in Files, t \in AllTexts |-> IF t \in Readable THEN test_items(PathOf[f], TextOf[t]) ELSE <<>>]

\* Whether base.rglob('*.md') yields the file and main() does not skip it
\* (README*, ignored paths)
ScannedMd(base, path) ==
    /\ Under(base, path)
    /\ EndsWith(PathName(path), <<".","m","d">>)
    /\ ~StartsWith(PathName(path), <<"R","E","A","D","M","E">>)
    /\ ~is_ignored(path)

\* Whether tdir.rglob('*' + ext) yields the file
ScannedTest(tdir, ext, path) == Under(tdir, path) /\ EndsWith(PathName(path), ext)

\* Both, once per file
IsScannedMd == [b \in 1..Len(SCAN_DIRS), f \in Files |-> ScannedMd(SCAN_DIRS[b], PathOf[f])]
IsScannedTest ==
    [d \in 1..Len(CODE_TEST_DIRS), e \in 1..Len(TEST_EXTS), f \in Files |->
        ScannedTest(CODE_TEST_DIRS[d], TEST_EXTS[e], PathOf[f])]

\* all_items of spec_parser.main() when the traversal enumerates in order ord
AllItems(ord) ==
    LET md == Concat([b \in 1..Len(SCAN_DIRS) |-> SelectSeq(ord, LAMBDA f : IsScannedMd[b, f])])
        tests == Concat([d \in 1..Len(CODE_TEST_DIRS) |->
                    Concat([e \in 1..Len(TEST_EXTS) |-> SelectSeq(ord, LAMBDA f : IsScannedTest[d, e, f])])])
    IN Concat([n \in 1..Len(md) |-> ParsedFile[md[n], corpus[md[n]]]])
       \o Concat([n \in 1..Len(tests) |-> ParsedTest[tests[n], corpus[tests[n]]]])

NoIndex == [exists |-> FALSE, items |-> <<>>, duplicateIds |-> <<>>]
NoOrphans == [requirements_no_links |-> <<>>, scenarios_no_req |-> <<>>, components_no_req |-> <<>>, adrs_no_req |-> <<>>]
NoReports == [exists |-> FALSE, placeholder |-> FALSE, matrix |-> <<>>, orphans |-> NoOrphans]
NoTrace == [exists |-> FALSE, items |-> <<>>, forward |-> <<>>, backward |-> <<>>, metrics |-> <<>>]

\* Nothing has run yet
NoOutputFiles ==
    /\ specIndex = NoIndex
    /\ allItems = <<>>
    /\ traceability = NoTrace
    /\ reports = NoReports
    /\ exitCode = [s \in Stages |-> -1]
    /\ unlinked = <<>>

NoOutputs == NoOutputFiles /\ allowEmptySpecs = FALSE

NoCoverage == [trace |-> [exists |-> FALSE, metrics |-> <<>>], args |-> <<>>, rc |-> -1]

CoverageIdle == coverage = NoCoverage

NoIntegrity == [requirements_db |-> <<>>, keys |-> <<>>, link_order |-> <<>>,
                outcome |-> "none", circular_deps |-> <<>>]
IntegrityIdle == integrity = NoIntegrity

NoEnforcer == [args |-> <<>>, backup_dir |-> "none", response |-> "n", repo |-> "empty", ran |-> FALSE,
               backup |-> FALSE, written |-> {}, restored |-> FALSE, rc |-> -1]
EnforcerIdle == enforcer = NoEnforcer

NoRegistry == [docs |-> [f |-> {}, nf |-> {}, dup_f |-> {}, dup_nf |-> {}],
               registry |-> [functional_ids |-> {}, non_functional_ids |-> {},
                             next_functional |-> 1, next_non_functional |-> 1, conflicts |-> <<>>],
               returned |-> <<>>]
RegistryIdle == registry = NoRegistry

NoGenTests == [dir |-> FALSE, files |-> {}, rc |-> -1]
GenTestsIdle == genTests = NoGenTests

NoGuard == [pc |-> "idle", command |-> <<>>, effect |-> {}, honours |-> FALSE, git_ok |-> FALSE,
            initial |-> {}, dirty |-> {}, runs |-> <<>>, files_to_modify |-> {},
            confirmed |-> FALSE, declined |-> FALSE, rc |-> -1]
GuardIdle == guard = NoGuard

NoSafety == [tree |-> <<>>, backup |-> <<>>, backed |-> FALSE, rolled |-> FALSE, rc |-> -1]
SafetyIdle == safety = NoSafety

ToolsIdle == CoverageIdle /\ IntegrityIdle /\ EnforcerIdle /\ RegistryIdle /\ GenTestsIdle /\ GuardIdle /\ SafetyIdle

Init ==
    /\ corpus \in {c \in [Files -> Texts \cup {"none"}] : Cardinality({f \in Files : c[f] # "none"}) <= MaxFiles}
    /\ NoOutputs
    /\ ToolsIdle

\* A main() without the try/except around parse_file and read_text
SpecParserMainAborting ==
    IF \E f \in Present : corpus[f] \notin Readable
    THEN /\ exitCode' = [exitCode EXCEPT !["spec_parser"] = 1]
         /\ UNCHANGED <<corpus, specIndex, allItems, traceability, reports, allowEmptySpecs, unlinked, toolVars>>
    ELSE \E ord \in Orders(Present) :
            LET all_items == AllItems(ord)
                d == Dedup(all_items, 1, <<>>, <<>>)
            IN /\ allItems' = all_items
               /\ specIndex' = [exists |-> TRUE, items |-> d.items, duplicateIds |-> d.duplicateIds]
               /\ exitCode' = [exitCode EXCEPT !["spec_parser"] = 0]
               /\ UNCHANGED <<corpus, traceability, reports, allowEmptySpecs, unlinked, toolVars>>

\* spec_parser.main()
SpecParserMain ==
    \E ord \in Orders(Present) :
        LET all_items == AllItems(ord)
            d == Dedup(all_items, 1, <<>>, <<>>)
        IN /\ allItems' = all_items
           /\ specIndex' = [exists |-> TRUE, items |-> d.items, duplicateIds |-> d.duplicateIds]
           /\ exitCode' = [exitCode EXCEPT !["spec_parser"] = 0]
           /\ UNCHANGED <<corpus, traceability, reports, allowEmptySpecs, unlinked, toolVars>>

Metrics(items) ==
    [str |-> PrefixMetric(items, PREFIX_ORDER[1]),
     requirement |-> PrefixMetric(items, PREFIX_ORDER[2]),
     arc |-> PrefixMetric(items, PREFIX_ORDER[3]),
     adr |-> PrefixMetric(items, PREFIX_ORDER[4]),
     qa |-> PrefixMetric(items, PREFIX_ORDER[5]),
     test |-> PrefixMetric(items, PREFIX_ORDER[6]),
     requirement_to_ADR |-> req_link_stat(items, <<"A","D","R">>),
     requirement_to_scenario |-> req_link_stat(items, <<"Q","A">>),
     requirement_to_test |-> req_link_stat(items, <<"T","E","S","T">>)]

\* build_trace_json.main()
BuildTraceMainUnguarded ==
    LET items == specIndex.items
    IN /\ traceability' = [exists |-> TRUE, items |-> items, forward |-> Forward(items),
                           backward |-> Backward(items), metrics |-> Metrics(items)]
       /\ exitCode' = [exitCode EXCEPT !["build_trace_json"] = 0]
       /\ UNCHANGED <<corpus, specIndex, allItems, reports, allowEmptySpecs, unlinked, toolVars>>

BuildTraceMain ==
    IF ~specIndex.exists
    THEN /\ exitCode' = [exitCode EXCEPT !["build_trace_json"] = 1]
         /\ UNCHANGED <<corpus, specIndex, allItems, traceability, reports, allowEmptySpecs, unlinked, toolVars>>
    ELSE LET items == specIndex.items
         IN /\ traceability' = [exists |-> TRUE, items |-> items, forward |-> Forward(items),
                                backward |-> Backward(items), metrics |-> Metrics(items)]
            /\ exitCode' = [exitCode EXCEPT !["build_trace_json"] = 0]
            /\ UNCHANGED <<corpus, specIndex, allItems, reports, allowEmptySpecs, unlinked, toolVars>>

\* is_guidance and the pattern matches, once per (file, text) and per text
IsMatrixScanned == [f \in Files, t \in AllTexts |-> t \in Readable /\ MatrixScanned(PathOf[f], TextOf[t])]
StrippedText == [t \in Readable |-> Stripped(TextOf[t])]
MatrixIdsOf == [t \in Readable |-> MatrixIds(StrippedText[t])]

\* files of the module: the markdown files that are kept
MatrixFiles == {f \in Present : IsMatrixScanned[f, corpus[f]]}

\* index: pattern key -> the set of ids found
MatrixIndex == [key \in PatternKeys |-> UNION {MatrixIdsOf[corpus[f]][key] : f \in MatrixFiles}]

\* occurrence[key][id]
Occurrence(key, id) == {f \in MatrixFiles : id \in MatrixIdsOf[corpus[f]][key]}

all_requirements(index) == UNION {index[key] : key \in requirement_patterns}

\* The ids of index[key] that occur in a file whose (unstripped) text contains req
LinkedOf(index, key, req) ==
    {x \in index[key] : \E f \in Occurrence(key, x) : Contains(Content(f), req)}

\* req_links after the adr, scenario and component loops; the loop over
\* index['test'] adds nothing
req_links(index, reqs) ==
    [req \in reqs |-> UNION {LinkedOf(index, key, req) : key \in {"adr", "scenario", "component"}}]

\* The ids of index[key] that no requirement links
NoReq(index, key, links) == Sorted({x \in index[key] : ~\E r \in DOMAIN links : x \in links[r]})

orphans(index, reqs, links) ==
    [requirements_no_links |-> Sorted({r \in reqs : links[r] = {}}),
     scenarios_no_req |-> NoReq(index, "scenario", links),
     components_no_req |-> NoReq(index, "component", links),
     adrs_no_req |-> NoReq(index, "adr", links)]

\* generate-traceability-matrix.py, run as a script; allow_empty is whether
\* os.environ.get('ALLOW_EMPTY_SPECS') is true, that is set to a non-empty value,
\* in the environment the stages run in
\* not any(index.values()) and os.environ.get('ALLOW_EMPTY_SPECS')
EmptyScaffoldAlways(index, allow_empty) == \A key \in PatternKeys : index[key] = {}

EmptyScaffold(index, allow_empty) == (\A key \in PatternKeys : index[key] = {}) /\ allow_empty

GenerateMatrix ==
        LET allow_empty == allowEmptySpecs
            index == MatrixIndex
            reqs == all_requirements(index)
            links == req_links(index, reqs)
            rows == Sorted(reqs)
        IN /\ reports' =
                IF EmptyScaffold(index, allow_empty)
                THEN [exists |-> TRUE, placeholder |-> TRUE, matrix |-> <<>>, orphans |-> NoOrphans]
                ELSE [exists |-> TRUE, placeholder |-> FALSE,
                      matrix |-> [n \in 1..Len(rows) |-> [req |-> rows[n], linked |-> Sorted(links[rows[n]])]],
                      orphans |-> orphans(index, reqs, links)]
           /\ exitCode' = [exitCode EXCEPT !["generate_traceability_matrix"] = 0]
           /\ UNCHANGED <<corpus, specIndex, allItems, traceability, allowEmptySpecs, unlinked, toolVars>>

Next == SpecParserMain \/ BuildTraceMain \/ GenerateMatrix

Spec == Init /\ [][Next]_vars

(***************************************************************************)
(* trace_unlinked_requirements.py                                          *)
(***************************************************************************)
\* The fallback of load_trace_details: details rebuilt from spec-index.json
DetailsFromIndex(items) ==
    LET forward == Forward(items)
        adr_to_reqs(rid) == {items[n].id : n \in {k \in 1..Len(items) :
                                StartsWith(items[k].id, <<"A","D","R">>) /\ rid \in Range(items[k].references)}}
    IN [rid \in {id \in ItemIds(items) : StartsWith(id, <<"R","E","Q">>)} |->
            [forward_refs |-> SelectSeq(forward[rid], LAMBDA r : StartsWith(r, <<"A","D","R">>)),
             reverse_refs |-> Sorted(adr_to_reqs(rid))]]

\* load_trace_details(): the details of traceability.json when it has any,
\* else the fallback, else FileNotFoundError
load_trace_details ==
    IF traceability.exists /\ DOMAIN traceability.metrics.requirement_to_ADR.details # {}
    THEN [found |-> TRUE, details |-> traceability.metrics.requirement_to_ADR.details]
    ELSE IF ~specIndex.exists
         THEN [found |-> FALSE, details |-> <<>>]
         ELSE [found |-> TRUE, details |-> DetailsFromIndex(specIndex.items)]

\* A requirement with a reverse reference only is reported as well
UnlinkedForwardOnly(details) == Sorted({rid \in DOMAIN details : details[rid].forward_refs = <<>>})

\* unlinked, sorted
UnlinkedOf(details) ==
    Sorted({rid \in DOMAIN details : details[rid].forward_refs = <<>> /\ details[rid].reverse_refs = <<>>})

\* trace_unlinked_requirements.main(); the three output formats print the
\* same list
TraceUnlinkedMain ==
    LET loaded == load_trace_details
    IN /\ IF loaded.found
          THEN /\ unlinked' = UnlinkedOf(loaded.details)
               /\ exitCode' = [exitCode EXCEPT !["trace_unlinked_requirements"] = 0]
          ELSE /\ exitCode' = [exitCode EXCEPT !["trace_unlinked_requirements"] = 1]
               /\ UNCHANGED unlinked
       /\ UNCHANGED <<corpus, specIndex, allItems, traceability, reports, allowEmptySpecs, toolVars>>

\* The index stages and the helper over repositories that hold one of the
\* further documents, in the requirement and test directories
ExtFiles == {"a_md", "b_md", "t_py"}

InitExt ==
    /\ \E g \in [ExtFiles -> Texts \cup ExtraTexts \cup {"none"}] :
        /\ Cardinality({f \in ExtFiles : g[f] # "none"}) <= MaxFiles
        /\ \E f \in ExtFiles : g[f] \in ExtraTexts
        /\ corpus = [f \in Files |-> IF f \in ExtFiles THEN g[f] ELSE "none"]
    /\ NoOutputs
    /\ ToolsIdle

NextExt == SpecParserMain \/ BuildTraceMain \/ TraceUnlinkedMain

SpecExt == InitExt /\ [][NextExt]_vars

(***************************************************************************)
(* validate-traceability.py                                                *)
(***************************************************************************)
\* s.split(c)
RECURSIVE SplitOn(_, _)
SplitOn(s, c) ==
    LET at == Find(s, <<c>>)
    IN IF at = 0 THEN <<s>>
       ELSE <<SubSeq(s, 1, at - 1)>> \o SplitOn(SubSeq(s, at + 1, Len(s)), c)

\* ', '.join(ids)
RECURSIVE JoinComma(_)
JoinComma(ids) ==
    IF ids = <<>> THEN <<>>
    ELSE IF Len(ids) = 1 THEN ids[1]
    ELSE ids[1] \o <<","," ">> \o JoinComma(Tail(ids))

\* The lines of reports/traceability-matrix.md
MatrixLines(rep) ==
    IF rep.placeholder
    THEN <<<<"#"," ","T","r","a","c","e","a","b","i","l","i","t","y"," ","M","a","t","r","i","x">>, <<>>, <<"_","N","o"," ","g","o","v","e","r","n","e","d"," ","s","p","e","c"," ","i","t","e","m","s"," ","f","o","u","n","d"," ","(","e","m","p","t","y"," ","s","c","a","f","f","o","l","d"," ","m","o","d","e",")",".","_">>>>
    ELSE <<<<"#"," ","T","r","a","c","e","a","b","i","l","i","t","y"," ","M","a","t","r","i","x"," ","(","H","e","u","r","i","s","t","i","c"," ","D","r","a","f","t",")">>, <<>>,
           <<"|"," ","R","e","q","u","i","r","e","m","e","n","t"," ","|"," ","L","i","n","k","e","d"," ","E","l","e","m","e","n","t","s"," ","(","A","D","R"," ","/"," ","C","o","m","p","o","n","e","n","t"," ","/"," ","S","c","e","n","a","r","i","o"," ","/"," ","T","e","s","t",")"," ","|">>,
           <<"|","-","-","-","-","-","-","-","-","-","-","-","-","-","|","-","-","-","-","-","-","-","-","-","-","-","-","-","-","-","-","-","-","-","-","-","-","-","-","-","-","-","-","-","-","-","-","-","-","-","-","-","-","-","-","-","-","-","-","-","-","-","-","-","-","-","-","|">>>>
         \o [n \in 1..Len(rep.matrix) |->
                <<"|"," ">> \o rep.matrix[n].req \o <<" ","|"," ">>
                \o (IF rep.matrix[n].linked = <<>> THEN <<"(","n","o","n","e",")">> ELSE JoinComma(rep.matrix[n].linked))
                \o <<" ","|">>]

\* issues: the requirement ids of the rows that start with '| REQ-' and whose
\* second cell is '(none)'
Issues(lines) ==
    LET parts(line) == LET cells == SplitOn(StripChars(line, {"|"}), "|")
                       IN [k \in 1..Len(cells) |-> StripChars(cells[k], Whitespace)]
    IN {parts(lines[n])[1] : n \in {k \in 1..Len(lines) :
            /\ StartsWith(lines[k], <<"|"," ","R","E","Q","-">>)
            /\ Len(parts(lines[k])) >= 2
            /\ parts(lines[k])[2] = <<"(","n","o","n","e",")">>}}

\* validate-traceability.py, run as a script
ValidateTraceability ==
    /\ exitCode' = [exitCode EXCEPT !["validate_traceability"] =
            IF ~reports.exists THEN 1
            ELSE IF Issues(MatrixLines(reports)) # {} THEN 1 ELSE 0]
    /\ UNCHANGED <<corpus, specIndex, allItems, traceability, reports, allowEmptySpecs, unlinked, toolVars>>

\* The matrix generator and its validator over the markdown documents, one
\* of which may hold an interface requirement
MatrixInitFiles == {"a_md", "b_md", "readme_md"}

InitMatrix ==
    /\ \E g \in [MatrixInitFiles -> Texts \cup InterfaceTexts \cup {"none"}] :
        /\ Cardinality({f \in MatrixInitFiles : g[f] # "none"}) <= MaxFiles
        /\ corpus = [f \in Files |-> IF f \in MatrixInitFiles THEN g[f] ELSE "none"]
    /\ NoOutputFiles
    /\ allowEmptySpecs \in BOOLEAN
    /\ ToolsIdle

NextMatrix == GenerateMatrix \/ ValidateTraceability

SpecMatrix == InitMatrix /\ [][NextMatrix]_vars

(***************************************************************************)
(* validate-trace-coverage.py                                              *)
(***************************************************************************)
\* The metric keys a traceability.json may hold, the coverage_pct values
\* (-1: the entry has no coverage_pct) and the thresholds of the arguments
CoverageKeys == {"requirement", "REQ", "requirement_to_ADR", "req_to_adr",
                 "requirement_to_scenario", "requirement_to_test"}
AliasKeys == {"REQ", "req_to_adr"}
Pcts == {40, 90}
Thresholds == {50, 100}
ArgNames == {"min_req", "min_req_adr", "min_req_scenario", "min_req_test"}

\* get_cov: the coverage_pct of the first alias that has one, else None (-1)
RECURSIVE get_cov(_, _)
get_cov(metrics, key_aliases) ==
    IF key_aliases = <<>> THEN -1
    ELSE LET k == Head(key_aliases)
         IN IF k \in DOMAIN metrics /\ metrics[k] # -1
            THEN metrics[k]
            ELSE get_cov(metrics, Tail(key_aliases))

\* The first failed threshold decides
WorseFirst(status, code) == IF status = 0 THEN code ELSE status

\* status = max(status, code)
Worse(status, code) == Max({status, code})

\* One threshold check of main()
CheckThreshold(status, cov, min, code) ==
    IF cov # -1 /\ cov < min THEN Worse(status, code) ELSE status

\* main(), as the return code for a traceability.json and arguments
CoverageStatus(trace, args) ==
    IF ~trace.exists THEN 1
    ELSE LET metrics == trace.metrics
             overall == get_cov(metrics, <<"requirement", "REQ", "REQ-">>)
             adr_cov == get_cov(metrics, <<"requirement_to_ADR", "req_to_adr">>)
             scen_cov == get_cov(metrics, <<"requirement_to_scenario", "req_to_scenario">>)
             test_cov == get_cov(metrics, <<"requirement_to_test", "req_to_test">>)
         IN IF overall = -1 THEN 1
            ELSE CheckThreshold(
                    CheckThreshold(
                        CheckThreshold(
                            CheckThreshold(0, overall, args["min_req"], 2),
                            adr_cov, args["min_req_adr"], 3),
                        scen_cov, args["min_req_scenario"], 4),
                    test_cov, args["min_req_test"], 5)

\* The metrics blocks: a subset of the keys (an alias key only in a small
\* block), each with a value or without coverage_pct
MetricsBlocks ==
    UNION {[K -> Pcts \cup {-1}] : K \in {S \in SUBSET CoverageKeys :
                \A a \in AliasKeys : a \in S => Cardinality(S) <= 3}}

NoTraceFile == [exists |-> FALSE, metrics |-> <<>>]

InitCoverage ==
    /\ corpus = [f \in Files |-> "none"]
    /\ NoOutputs
    /\ IntegrityIdle
    /\ EnforcerIdle
    /\ RegistryIdle
    /\ GenTestsIdle
    /\ GuardIdle
    /\ SafetyIdle
    /\ \E trace \in {[exists |-> TRUE, metrics |-> m] : m \in MetricsBlocks} \cup {NoTraceFile},
          args \in [ArgNames -> Thresholds] :
            coverage = [trace |-> trace, args |-> args, rc |-> -1]

ValidateCoverageMain ==
    /\ coverage' = [coverage EXCEPT !.rc = CoverageStatus(coverage.trace, coverage.args)]
    /\ UNCHANGED <<pipelineVars, integrity, enforcer, registry, genTests, guard, safety>>

NextCoverage == ValidateCoverageMain

SpecCoverage == InitCoverage /\ [][NextCoverage]_vars

(***************************************************************************)
(* enforce-traceability.py: circular dependency detection                  *)
(***************************************************************************)
\* The identifiers of a small requirements database
ReqIds == {"R1", "R2", "R3"}

\* requirements_db is a dict (iterated in insertion order) and each
\* downstream_links a set of strings (iterated in an order the hash seed
\* fixes): both orders are inputs
KeyOrders == {q \in UNION {[1..n -> ReqIds] : n \in 0..Cardinality(ReqIds)} : NoRepeats(q)}
LinkOrders == {q \in [1..Cardinality(ReqIds) -> ReqIds] : NoRepeats(q)}
InOrder(order, S) == SelectSeq(order, LAMBDA x : x \in S)

NoDfsState == [visited |-> {}, rec_stack |-> {}, circular_deps |-> <<>>, raised |-> FALSE]

\* dfs: found is its return value (or the ValueError of path.index leaving
\* it); st the visited set, the recursion stack and the chains afterwards.
\* rec_stack.remove is reached only when no downstream call returned True.
RECURSIVE dfs(_, _, _, _, _), dfs_links(_, _, _, _, _)
dfs(db, order, req_id, path, st) ==
    IF req_id \in st.rec_stack
    THEN IF req_id \in Range(path)
         THEN LET cycle_start == Min({i \in 1..Len(path) : path[i] = req_id})
              IN [found |-> TRUE,
                  st |-> [st EXCEPT !.circular_deps =
                            Append(@, SubSeq(path, cycle_start, Len(path)) \o <<req_id>>)]]
         ELSE [found |-> TRUE, st |-> [st EXCEPT !.raised = TRUE]]
    ELSE IF req_id \in st.visited
    THEN [found |-> FALSE, st |-> st]
    ELSE LET entered == [st EXCEPT !.visited = @ \cup {req_id}, !.rec_stack = @ \cup {req_id}]
             links == IF req_id \in DOMAIN db
                      THEN InOrder(order, db[req_id].downstream_links) ELSE <<>>
             r == dfs_links(db, order, links, path \o <<req_id>>, entered)
         IN IF r.found THEN r
            ELSE [found |-> FALSE, st |-> [r.st EXCEPT !.rec_stack = @ \ {req_id}]]
dfs_links(db, order, links, path, st) ==
    IF links = <<>> THEN [found |-> FALSE, st |-> st]
    ELSE LET r == dfs(db, order, Head(links), path, st)
         IN IF r.found THEN r ELSE dfs_links(db, order, Tail(links), path, r.st)

\* for req_id in self.requirements_db: if req_id not in visited: dfs(req_id, [])
RECURSIVE detect_loop(_, _, _, _)
detect_loop(db, order, keys, st) ==
    IF keys = <<>> \/ st.raised THEN st
    ELSE detect_loop(db, order, Tail(keys),
            IF Head(keys) \in st.visited THEN st ELSE dfs(db, order, Head(keys), <<>>, st).st)

detect_circular_dependencies(db, keys, order) == detect_loop(db, order, keys, NoDfsState)

\* A scan leaves every RequirementElement without links
InitIntegrity ==
    /\ corpus = [f \in Files |-> "none"]
    /\ NoOutputs
    /\ CoverageIdle
    /\ EnforcerIdle
    /\ RegistryIdle
    /\ GenTestsIdle
    /\ GuardIdle
    /\ SafetyIdle
    /\ \E keys \in KeyOrders, order \in LinkOrders :
            integrity = [requirements_db |-> [k \in Range(keys) |->
                                                [downstream_links |-> {}, upstream_links |-> {}]],
                         keys |-> keys, link_order |-> order,
                         outcome |-> "none", circular_deps |-> <<>>]

\* _apply_traceability_fix on the database: the link orphan_id -> target_id
\* in both directions, when both are entries
apply_traceability_fix(db, orphan_id, target_id) ==
    IF orphan_id \in DOMAIN db /\ target_id \in DOMAIN db
    THEN [k \in DOMAIN db |->
            [downstream_links |-> db[k].downstream_links \cup (IF k = orphan_id THEN {target_id} ELSE {}),
             upstream_links |-> db[k].upstream_links \cup (IF k = target_id THEN {orphan_id} ELSE {})]]
    ELSE db

ApplyTraceabilityFix ==
    /\ integrity.outcome = "none"
    /\ \E orphan_id, target_id \in ReqIds :
         integrity' = [integrity EXCEPT !.requirements_db =
                          apply_traceability_fix(@, orphan_id, target_id)]
    /\ UNCHANGED <<pipelineVars, coverage, enforcer, registry, genTests, guard, safety>>

DetectCircularDependencies ==
    /\ integrity.outcome = "none"
    /\ LET st == detect_circular_dependencies(integrity.requirements_db, integrity.keys,
                                              integrity.link_order)
       IN integrity' = [integrity EXCEPT
                          !.outcome = IF st.raised THEN "raised" ELSE "returned",
                          !.circular_deps = IF st.raised THEN <<>> ELSE st.circular_deps]
    /\ UNCHANGED <<pipelineVars, coverage, enforcer, registry, genTests, guard, safety>>

NextIntegrity == ApplyTraceabilityFix \/ DetectCircularDependencies

SpecIntegrity == InitIntegrity /\ [][NextIntegrity]_vars

(***************************************************************************)
(* enforce-traceability.py: main                                           *)
(***************************************************************************)
\* Repositories main is run on: the requirements scan_all_requirements finds,
\* each with its phase and file (no file path names an IEEE standard)
Repos == {"empty", "one_requirement", "two_in_one_file", "requirement_and_architecture"}
Req1 == [req_id |-> "REQ-F-001", phase |-> "02-requirements", file_path |-> "02-requirements/a.md"]
Req2Same == [req_id |-> "REQ-F-002", phase |-> "02-requirements", file_path |-> "02-requirements/a.md"]
Req2Arch == [req_id |-> "REQ-F-002", phase |-> "03-architecture", file_path |-> "03-architecture/b.md"]
scan_all_requirements ==
    [empty |-> {}, one_requirement |-> {Req1}, two_in_one_file |-> {Req1, Req2Same},
     requirement_and_architecture |-> {Req1, Req2Arch}]

\* analyze_traceability_gaps: a scanned requirement has no upstream and no
\* downstream link, so each one is an orphan
analyze_traceability_gaps(db) == {r.req_id : r \in db}

\* validate_traceability_compliance: no violation (orphans; links and
\* identifier formats of a scan are in order)
validate_traceability_compliance(db) == analyze_traceability_gaps(db) = {}

extract_standard_from_path(file_path) == "unknown"

\* _find_potential_links, scores in hundredths
SameFileScore == 70
SameStandardScore == 60
ConfidenceThreshold == 80
find_potential_links(req, db) ==
    {[target_id |-> c.req_id, score |-> SameFileScore] :
        c \in {r \in db : r.file_path = req.file_path /\ r.req_id # req.req_id}}
    \cup (IF req.phase = "02-requirements"
          THEN {[target_id |-> a.req_id, score |-> SameStandardScore] :
                  a \in {r \in db : /\ r.phase = "03-architecture"
                                    /\ extract_standard_from_path(req.file_path)
                                         = extract_standard_from_path(r.file_path)}}
          ELSE {})

\* _generate_traceability_suggestions: orphan -> confidence of its best match
generate_traceability_suggestions(db) ==
    LET withLinks == {r \in db : find_potential_links(r, db) # {}}
    IN {[orphan_id |-> r.req_id,
         confidence |-> Max({l.score : l \in find_potential_links(r, db)})] : r \in withLinks}

\* fix_orphaned_requirements: the orphans fixed automatically and those left
\* for the manual review report
AutoFixes(db) == {s \in generate_traceability_suggestions(db) : s.confidence >= ConfidenceThreshold}
ManualReview(db) == {s \in generate_traceability_suggestions(db) : s.confidence < ConfidenceThreshold}

ManualReviewReport == "reports/traceability-manual-review.md"
DatabaseExport == "reports/traceability-database.json"
SafetyReport == "reports/traceability-safety-report.md"

Flags == {"rollback", "dry_run", "read_only", "no_backup", "validate_all", "pre_commit",
          "fix_orphans", "migrate_legacy", "export_db", "safety_report"}
BackupDirs == {"none", "missing", "present"}
Responses == {"yes", "n"}

\* What one run of main leaves: whether a backup was created, the files it
\* wrote, whether it restored the phase directories, and its exit status.
\* The repository root is a directory and reports is no regular file.
EnforcerRun(args, backup_dir, response, repo) ==
    LET dry_run == args["dry_run"] \/ args["read_only"]
        backup_enabled == ~args["no_backup"] /\ ~args["read_only"]
        db == scan_all_requirements[repo]
        nothing == [backup |-> FALSE, written |-> {}, restored |-> FALSE, rc |-> 0]
        validates == args["validate_all"] \/ args["pre_commit"] \/ args["read_only"]
        fixes == args["fix_orphans"] /\ ~args["read_only"]
    IN IF args["rollback"]
       THEN IF backup_dir = "none" THEN [nothing EXCEPT !.rc = 1]
            ELSE IF backup_dir = "missing" THEN [nothing EXCEPT !.rc = 1]
            ELSE [nothing EXCEPT !.restored = TRUE]
       ELSE IF args["no_backup"] /\ ~dry_run /\ response # "yes"
       THEN nothing
       ELSE LET created == [nothing EXCEPT !.backup = backup_enabled /\ ~dry_run]
            IN IF validates /\ args["pre_commit"] /\ ~validate_traceability_compliance(db)
               THEN [created EXCEPT !.rc = 1]
               ELSE IF fixes /\ AutoFixes(db) # {}
               THEN [created EXCEPT !.rc = 1]
               ELSE [created EXCEPT !.written =
                        (IF fixes /\ ManualReview(db) # {} THEN {ManualReviewReport} ELSE {})
                        \cup (IF args["export_db"] THEN {DatabaseExport} ELSE {})
                        \cup (IF ~args["read_only"] THEN {SafetyReport} ELSE {})
                        \cup (IF args["safety_report"] \/ dry_run THEN {SafetyReport} ELSE {})]

InitEnforcer ==
    /\ corpus = [f \in Files |-> "none"]
    /\ NoOutputs
    /\ CoverageIdle
    /\ IntegrityIdle
    /\ RegistryIdle
    /\ GenTestsIdle
    /\ GuardIdle
    /\ SafetyIdle
    /\ \E args \in [Flags -> BOOLEAN], backup_dir \in BackupDirs, response \in Responses, repo \in Repos :
         /\ args["rollback"] \/ backup_dir = "none"
         /\ enforcer = [args |-> args, backup_dir |-> backup_dir, response |-> response,
                        repo |-> repo, ran |-> FALSE,
                        backup |-> FALSE, written |-> {}, restored |-> FALSE, rc |-> -1]

EnforceMain ==
    /\ ~enforcer.ran
    /\ LET run == EnforcerRun(enforcer.args, enforcer.backup_dir, enforcer.response, enforcer.repo)
       IN enforcer' = [enforcer EXCEPT !.ran = TRUE, !.backup = run.backup,
                          !.written = run.written, !.restored = run.restored, !.rc = run.rc]
    /\ UNCHANGED <<pipelineVars, coverage, integrity, registry, genTests, guard, safety>>

NextEnforcer == EnforceMain

SpecEnforcer == InitEnforcer /\ [][NextEnforcer]_vars

(***************************************************************************)
(* requirements-id-registry.py                                             *)
(***************************************************************************)
\* The REQ-F and REQ-NF numbers the markdown files of a repository hold
\* (some of them twice), the counts of a reservation call and the number of
\* reservation calls of a behaviour
DocNumbers == 1..2
Counts == 0..2
MaxCalls == 3

\* f"{id_num:03d}": the decimal digits, zero-padded to three
DigitSeq == <<"0", "1", "2", "3", "4", "5", "6", "7", "8", "9">>
RECURSIVE Decimal(_)
Decimal(n) == IF n < 10 THEN <<DigitSeq[n + 1]>> ELSE Append(Decimal(n \div 10), DigitSeq[(n % 10) + 1])
Format03d(n) ==
    LET d == Decimal(n)
    IN IF Len(d) >= 3 THEN d ELSE [i \in 1..(3 - Len(d)) |-> "0"] \o d
FunctionalId(n) == <<"R","E","Q","-","F","-">> \o Format03d(n)
NonFunctionalId(n) == <<"R","E","Q","-","N","F","-">> \o Format03d(n)

\* _load_or_create_registry without a registry file
NewRegistry == [functional_ids |-> {}, non_functional_ids |-> {},
                next_functional |-> 1, next_non_functional |-> 1, conflicts |-> <<>>]

\* scan_existing_ids: the recorded numbers replaced by those of the files,
\* each next number set to the largest recorded number plus one, or to 1
NextAfter(S) == IF S # {} THEN Max(S) + 1 ELSE 1
RECURSIVE Ascending(_)
Ascending(S) == IF S = {} THEN <<>> ELSE <<Min(S)>> \o Ascending(S \ {Min(S)})
\* one conflict for each second occurrence of a number, named by its
\* identifier (the files list the REQ-F duplicates before the REQ-NF ones)
ConflictsOf(docs) ==
    LET f == Ascending(docs.dup_f)
        nf == Ascending(docs.dup_nf)
    IN [i \in 1..Len(f) |-> FunctionalId(f[i])] \o [i \in 1..Len(nf) |-> NonFunctionalId(nf[i])]
scan_existing_ids(reg, docs) ==
    [functional_ids |-> docs.f, non_functional_ids |-> docs.nf,
     next_functional |-> NextAfter(docs.f), next_non_functional |-> NextAfter(docs.nf),
     conflicts |-> ConflictsOf(docs)]

\* get_next_functional_ids / get_next_non_functional_ids: the list returned
\* and the registry saved
get_next_functional_ids_unreserved(reg, count) ==
    [ids |-> [i \in 1..count |-> FunctionalId(reg.next_functional + (i - 1))],
     registry |-> reg]
get_next_functional_ids(reg, count) ==
    [ids |-> [i \in 1..count |-> FunctionalId(reg.next_functional + (i - 1))],
     registry |-> [reg EXCEPT !.next_functional = reg.next_functional + count]]
get_next_non_functional_ids(reg, count) ==
    [ids |-> [i \in 1..count |-> NonFunctionalId(reg.next_non_functional + (i - 1))],
     registry |-> [reg EXCEPT !.next_non_functional = reg.next_non_functional + count]]

InitRegistry ==
    /\ corpus = [f \in Files |-> "none"]
    /\ NoOutputs
    /\ CoverageIdle
    /\ IntegrityIdle
    /\ EnforcerIdle
    /\ GenTestsIdle
    /\ GuardIdle
    /\ SafetyIdle
    /\ \E f \in SUBSET DocNumbers, nf \in SUBSET DocNumbers :
         \E dup_f \in SUBSET f, dup_nf \in SUBSET nf :
            registry = [docs |-> [f |-> f, nf |-> nf, dup_f |-> dup_f, dup_nf |-> dup_nf],
                        registry |-> NewRegistry, returned |-> <<>>]

ScanExistingIds ==
    /\ registry' = [registry EXCEPT !.registry = scan_existing_ids(@, registry.docs)]
    /\ UNCHANGED <<pipelineVars, coverage, integrity, enforcer, genTests, guard, safety>>

GetNextFunctionalIds ==
    /\ Len(registry.returned) < MaxCalls
    /\ \E count \in Counts :
         LET r == get_next_functional_ids(registry.registry, count)
         IN registry' = [registry EXCEPT !.registry = r.registry, !.returned = Append(@, r.ids)]
    /\ UNCHANGED <<pipelineVars, coverage, integrity, enforcer, genTests, guard, safety>>

GetNextNonFunctionalIds ==
    /\ Len(registry.returned) < MaxCalls
    /\ \E count \in Counts :
         LET r == get_next_non_functional_ids(registry.registry, count)
         IN registry' = [registry EXCEPT !.registry = r.registry, !.returned = Append(@, r.ids)]
    /\ UNCHANGED <<pipelineVars, coverage, integrity, enforcer, genTests, guard, safety>>

NextRegistry == ScanExistingIds \/ GetNextFunctionalIds \/ GetNextNonFunctionalIds

SpecRegistry == InitRegistry /\ [][NextRegistry]_vars

\* validate-trace-coverage.py after the generator stages: TRACE_JSON is the
\* build/traceability.json build_trace_json writes.  A coverage_pct enters
\* only comparisons with whole-number thresholds, which its integer part
\* decides.
IntPart(pct) == pct.num \div pct.den
TraceFileOf(trace) ==
    IF ~trace.exists THEN NoTraceFile
    ELSE [exists |-> TRUE,
          metrics |-> [k \in DOMAIN trace.metrics |-> IntPart(trace.metrics[k].coverage_pct)]]

ValidateCoverageOfBuild ==
    /\ \E min \in Thresholds :
         LET trace == TraceFileOf(traceability)
             args == [a \in ArgNames |-> min]
         IN coverage' = [trace |-> trace, args |-> args, rc |-> CoverageStatus(trace, args)]
    /\ UNCHANGED <<pipelineVars, integrity, enforcer, registry, genTests, guard, safety>>

NextStages == SpecParserMain \/ BuildTraceMain \/ ValidateCoverageOfBuild

SpecStages == Init /\ [][NextStages]_vars


(***************************************************************************)
(* gen_tests.py: test skeletons for the requirements of the index          *)
(***************************************************************************)
REQ_PREFIX == <<"R","E","Q">>
MaxRefs == 6

\* SAFE.sub('_', req_id.lower())
SafeChars == Lower \cup Upper \cup Digit \cup {"_"}
normalize(req_id) ==
    LET low == ToLower(req_id)
    IN [i \in 1..Len(low) |-> IF low[i] \in SafeChars THEN low[i] ELSE "_"]

\* The name of the file under 05-implementation/tests/generated
TestFileName(rid) == <<"t","e","s","t","_">> \o normalize(rid) \o <<".","p","y">>

\* content, as main() formats it
SkeletonText(item) ==
    LET rid == item.id
        refs == JoinComma(SubSeq(item.references, 1, Min({MaxRefs, Len(item.references)})))
    IN <<"#"," ","A","u","t","o","-","g","e","n","e","r","a","t","e","d"," ","p","l","a","c","e","h","o","l","d","e","r"," ","t","e","s","t"," ","f","o","r"," ">> \o rid \o <<"\n">>
       \o <<"#"," ","D","o"," ","N","O","T"," ","e","d","i","t"," ","m","a","n","u","a","l","l","y",";"," ","u","p","d","a","t","e"," ","r","e","q","u","i","r","e","m","e","n","t"," ","o","r"," ","p","r","o","m","o","t","e"," ","t","o"," ","c","u","s","t","o","m"," ","t","e","s","t",".","\n">>
       \o <<"i","m","p","o","r","t"," ","p","y","t","e","s","t","\n","\n">>
       \o <<"@","p","y","t","e","s","t",".","m","a","r","k",".","r","e","q","u","i","r","e","m","e","n","t","(","'">> \o rid \o <<"'",")","\n">>
       \o <<"d","e","f"," ","t","e","s","t","_">> \o normalize(rid) \o <<"(",")",":","\n">>
       \o <<" "," "," "," ","\"","\"","\"","R","e","q","u","i","r","e","m","e","n","t"," ">> \o rid \o <<":"," ">> \o item.title \o <<"\n">>
       \o <<" "," "," "," ","R","e","f","e","r","e","n","c","e","s",":"," ">> \o refs \o <<"\n">>
       \o <<" "," "," "," ","\"","\"","\"","\n">>
       \o <<" "," "," "," ","#"," ","T","O","D","O",":"," ","I","m","p","l","e","m","e","n","t"," ","t","e","s","t"," ","l","o","g","i","c"," ","d","e","r","i","v","e","d"," ","f","r","o","m"," ","r","e","q","u","i","r","e","m","e","n","t"," ","s","p","e","c","i","f","i","c","a","t","i","o","n",".","\n">>
       \o <<" "," "," "," ","a","s","s","e","r","t"," ","T","r","u","e"," "," ","#"," ","p","l","a","c","e","h","o","l","d","e","r","\n">>

\* fname.exists()
FileExists(files, name) == \E f \in files : f.name = name

\* The loop of main() from item n on, writing every file without looking
RECURSIVE gen_tests_loop_overwriting(_, _, _)
gen_tests_loop_overwriting(items, n, files) ==
    IF n > Len(items) THEN files
    ELSE LET rid == items[n].id
             fname == TestFileName(rid)
         IN IF ~StartsWith(rid, REQ_PREFIX)
            THEN gen_tests_loop_overwriting(items, n + 1, files)
            ELSE gen_tests_loop_overwriting(items, n + 1,
                    {f \in files : f.name # fname} \cup {[name |-> fname, content |-> SkeletonText(items[n])]})

\* The loop of main() from item n on
RECURSIVE gen_tests_loop(_, _, _)
gen_tests_loop(items, n, files) ==
    IF n > Len(items) THEN files
    ELSE LET rid == items[n].id
             fname == TestFileName(rid)
         IN IF ~StartsWith(rid, REQ_PREFIX) \/ FileExists(files, fname)
            THEN gen_tests_loop(items, n + 1, files)
            ELSE gen_tests_loop(items, n + 1,
                    files \cup {[name |-> fname, content |-> SkeletonText(items[n])]})

\* A test a developer wrote at the name of a skeleton
CustomTest == [name |-> <<"t","e","s","t","_","r","e","q","_","f","_","0","0","1",".","p","y">>, content |-> <<"d","e","f"," ","t","e","s","t","_","r","e","q","_","f","_","0","0","1","(",")",":","\n"," "," "," "," ","a","s","s","e","r","t"," ","l","o","g","i","n","(",")","\n">>]

\* The documents of the runs of gen_tests
GenTexts == Texts \cup AliasTexts

InitGen ==
    /\ corpus \in {c \in [Files -> GenTexts \cup {"none"}] : Cardinality({f \in Files : c[f] # "none"}) <= MaxFiles}
    /\ NoOutputs
    /\ CoverageIdle
    /\ IntegrityIdle
    /\ EnforcerIdle
    /\ RegistryIdle
    /\ GuardIdle
    /\ SafetyIdle
    /\ genTests \in {NoGenTests, [dir |-> TRUE, files |-> {}, rc |-> -1], [dir |-> TRUE, files |-> {CustomTest}, rc |-> -1]}

\* gen_tests.main()
GenTestsMain ==
    /\ genTests' = IF ~specIndex.exists
                   THEN [genTests EXCEPT !.rc = 1]
                   ELSE [dir |-> TRUE, files |-> gen_tests_loop(specIndex.items, 1, genTests.files), rc |-> 0]
    /\ UNCHANGED <<pipelineVars, coverage, integrity, enforcer, registry, guard, safety>>

\* spec_parser.main() while the generated directory holds no skeleton:
\* the parser reads 05-implementation/tests too, so a skeleton that quotes
\* a TEST id would become a document of the next index
SpecParserBeforeSkeletons ==
    /\ genTests.files \subseteq {CustomTest}
    /\ SpecParserMain

NextGen == SpecParserBeforeSkeletons \/ GenTestsMain
SpecGen == InitGen /\ [][NextGen]_vars


(***************************************************************************)
(* bulk-protection-guard.py: a command run behind the bulk guard           *)
(***************************************************************************)
MAX_AUTO_MODIFY == 3
MaxTouched == 4

dangerous_patterns == <<<<"-","-","a","l","l">>, <<"*">>, <<"*","*","/","*">>, <<"a","u","t","o","f","i","x","-","s","p","e","c","-","c","o","m","p","l","i","a","n","c","e",".","p","y">>>>

\* ' '.join(command)
RECURSIVE JoinSpace(_)
JoinSpace(command) ==
    IF command = <<>> THEN <<>>
    ELSE IF Len(command) = 1 THEN command[1]
    ELSE command[1] \o <<" ">> \o JoinSpace(Tail(command))

is_bulk_operation(command) ==
    \E p \in 1..Len(dangerous_patterns) : Contains(JoinSpace(command), dangerous_patterns[p])

\* test_command of analyze_potential_changes
test_command(command) ==
    IF \E a \in 1..Len(command) : Contains(command[a], <<"a","u","t","o","f","i","x">>)
    THEN Append(command, <<"-","-","c","h","e","c","k","-","o","n","l","y">>)
    ELSE command

\* The commands given to the guard, the files of the work tree, the files a
\* command changes when it runs, and what the user types at the prompt
GuardCommands ==
    {<<<<"p","y","t","h","o","n">>, <<"f","i","x",".","p","y">>, <<"a",".","m","d">>>>,
     <<<<"p","y","t","h","o","n">>, <<"f","i","x",".","p","y">>, <<"-","-","a","l","l">>>>,
     <<<<"s","e","d">>, <<"-","i">>, <<"s","/","a","/","b","/">>, <<"*",".","m","d">>>>,
     <<<<"p","y","t","h","o","n">>, <<"S","c","r","i","p","t","s","/","a","u","t","o","f","i","x","-","s","p","e","c","-","c","o","m","p","l","i","a","n","c","e",".","p","y">>>>}
TreeFiles == 1..MaxTouched
Effects == {1..k : k \in 0..MaxTouched}
GuardResponses == {<<"y","e","s">>, <<"Y">>, <<"n","o">>, <<>>}

\* subprocess.run(argv, cwd=repo_root): the files git reports as changed
\* afterwards. A command that honours --check-only changes nothing under it.
RunProcess(g, argv) ==
    IF argv # g.command /\ g.honours THEN g.dirty ELSE g.dirty \cup g.effect

\* The record of one subprocess.run of argv by the guard
Ran(g, argv) == [argv |-> argv, confirmed |-> g.confirmed]

\* analyze_potential_changes: (modified_files, is_safe) and the guard after it
analyze_potential_changes(g) ==
    IF ~g.git_ok THEN [files |-> {}, is_safe |-> FALSE, guard |-> g]
    ELSE LET initial_modified == g.dirty
             final_modified == RunProcess(g, test_command(g.command))
             newly_modified == final_modified \ initial_modified
         IN [files |-> newly_modified,
             is_safe |-> Cardinality(newly_modified) <= MAX_AUTO_MODIFY,
             guard |-> [g EXCEPT !.dirty = final_modified,
                                 !.runs = Append(@, Ran(g, test_command(g.command)))]]

\* return subprocess.run(command, cwd=self.repo_root).returncode
RunCommand(g) ==
    [g EXCEPT !.pc = "done", !.dirty = RunProcess(g, g.command),
              !.runs = Append(@, Ran(g, g.command)), !.rc = 0]

\* guard_command up to its return or to the prompt of interactive_confirmation
GuardCommand ==
    /\ guard.pc \in {"idle", "done"}
    /\ \E command \in GuardCommands, effect \in Effects, honours \in BOOLEAN, git_ok \in BOOLEAN :
         LET g == [NoGuard EXCEPT !.command = command, !.effect = effect, !.honours = honours,
                                  !.git_ok = git_ok, !.initial = guard.dirty, !.dirty = guard.dirty]
         IN IF ~is_bulk_operation(command)
            THEN guard' = RunCommand(g)
            ELSE LET a == analyze_potential_changes(g)
                 IN IF a.is_safe
                    THEN guard' = RunCommand(a.guard)
                    ELSE guard' = [a.guard EXCEPT !.pc = "asking", !.files_to_modify = a.files]
    /\ UNCHANGED <<pipelineVars, coverage, integrity, enforcer, registry, genTests, safety>>

\* guard_command from the answer to the prompt on
GuardAnswer ==
    /\ guard.pc = "asking"
    /\ \E response \in GuardResponses :
         IF ToLower(response) \in {<<"y","e","s">>, <<"y">>}
         THEN guard' = RunCommand([guard EXCEPT !.confirmed = TRUE])
         ELSE guard' = [guard EXCEPT !.pc = "done", !.declined = TRUE, !.rc = 1]
    /\ UNCHANGED <<pipelineVars, coverage, integrity, enforcer, registry, genTests, safety>>

\* The user reverts the work tree between two calls (git checkout -- .)
RevertTree ==
    /\ guard.pc = "done"
    /\ guard.dirty # {}
    /\ guard' = [guard EXCEPT !.dirty = {}]
    /\ UNCHANGED <<pipelineVars, coverage, integrity, enforcer, registry, genTests, safety>>

InitGuard ==
    /\ corpus = [f \in Files |-> "none"]
    /\ NoOutputs
    /\ ToolsIdle

NextGuard == GuardCommand \/ GuardAnswer \/ RevertTree
SpecGuard == InitGuard /\ [][NextGuard]_vars


(***************************************************************************)
(* enforce-traceability.py: _create_backup and rollback_changes            *)
(***************************************************************************)
\* Two of the phase_dirs, and reports; the files of a directory and the
\* texts a file can hold
PhaseDirs == {"02-requirements", "04-design"}
BackedUpDirs == PhaseDirs \cup {"reports"}
DirFiles == {"a.md"}
FileTexts == {"v1", "v2"}

\* A directory: missing, or the text of each of its files ("none": no such file)
MissingDir == [exists |-> FALSE, files |-> [n \in DirFiles |-> "none"]]
DirStates == {MissingDir} \cup {[exists |-> TRUE, files |-> fs] : fs \in [DirFiles -> FileTexts \cup {"none"}]}

\* shutil.copytree(src, dst) into a destination that does not exist
copytree(dir) == dir

\* _create_backup into a new backups/traceability_backup_<timestamp>: the
\* directories that exist are copied, the others have no copy
create_backup(tree) == [d \in BackedUpDirs |-> IF tree[d].exists THEN copytree(tree[d]) ELSE MissingDir]

\* The loops of rollback_changes: rmtree and copytree for each directory the
\* backup holds
rollback_changes(tree, backup) ==
    [d \in BackedUpDirs |-> IF backup[d].exists THEN copytree(backup[d]) ELSE tree[d]]

InitSafety ==
    /\ corpus = [f \in Files |-> "none"]
    /\ NoOutputs
    /\ CoverageIdle
    /\ IntegrityIdle
    /\ EnforcerIdle
    /\ RegistryIdle
    /\ GenTestsIdle
    /\ GuardIdle
    /\ \E tree \in [BackedUpDirs -> DirStates] :
         safety = [tree |-> tree, backup |-> [d \in BackedUpDirs |-> MissingDir],
                   backed |-> FALSE, rolled |-> FALSE, rc |-> -1]

\* TraceabilityEnforcer._create_backup
CreateBackup ==
    /\ ~safety.backed
    /\ safety' = [safety EXCEPT !.backup = create_backup(safety.tree), !.backed = TRUE]
    /\ UNCHANGED <<pipelineVars, coverage, integrity, enforcer, registry, genTests, guard>>

\* A file is written under one of the directories (the directory is made
\* when missing, as create_safety_report makes reports)
WriteFile ==
    /\ safety.backed
    /\ \E d \in BackedUpDirs, n \in DirFiles, t \in FileTexts :
         /\ safety.tree[d].files[n] # t
         /\ safety' = [safety EXCEPT !.tree[d] = [exists |-> TRUE, files |-> [@.files EXCEPT ![n] = t]],
                                     !.rolled = FALSE]
    /\ UNCHANGED <<pipelineVars, coverage, integrity, enforcer, registry, genTests, guard>>

\* A file is removed
RemoveFile ==
    /\ safety.backed
    /\ \E d \in BackedUpDirs, n \in DirFiles :
         /\ safety.tree[d].files[n] # "none"
         /\ safety' = [safety EXCEPT !.tree[d].files[n] = "none", !.rolled = FALSE]
    /\ UNCHANGED <<pipelineVars, coverage, integrity, enforcer, registry, genTests, guard>>

\* A directory is removed with what it holds, or an empty one is made
RemoveDir ==
    /\ safety.backed
    /\ \E d \in BackedUpDirs :
         /\ safety.tree[d].exists
         /\ safety' = [safety EXCEPT !.tree[d] = MissingDir, !.rolled = FALSE]
    /\ UNCHANGED <<pipelineVars, coverage, integrity, enforcer, registry, genTests, guard>>

MakeDir ==
    /\ safety.backed
    /\ \E d \in BackedUpDirs :
         /\ ~safety.tree[d].exists
         /\ safety' = [safety EXCEPT !.tree[d].exists = TRUE, !.rolled = FALSE]
    /\ UNCHANGED <<pipelineVars, coverage, integrity, enforcer, registry, genTests, guard>>

\* TraceabilityEnforcer.rollback_changes
RollbackChanges ==
    /\ safety' = IF ~safety.backed
                 THEN [safety EXCEPT !.rc = 0]
                 ELSE [safety EXCEPT !.tree = rollback_changes(safety.tree, safety.backup),
                                     !.rolled = TRUE, !.rc = 1]
    /\ UNCHANGED <<pipelineVars, coverage, integrity, enforcer, registry, genTests, guard>>

NextSafety == CreateBackup \/ WriteFile \/ RemoveFile \/ RemoveDir \/ MakeDir \/ RollbackChanges
SpecSafety == InitSafety /\ [][NextSafety]_vars

\* The same stages over a repository whose documents hold no identifier, or
\* whose scan roots are missing
InitEmpty ==
    /\ corpus \in {c \in [Files -> PlainTexts \cup {"none"}] : Cardinality({f \in Files : c[f] # "none"}) <= MaxFiles + 1}
    /\ NoOutputFiles
    /\ allowEmptySpecs \in BOOLEAN
    /\ ToolsIdle

SpecEmpty == InitEmpty /\ [][Next]_vars

(***************************************************************************)
(* Properties                                                              *)
(***************************************************************************)
TargetPrefixes == {<<"A","D","R">>, <<"Q","A">>, <<"T","E","S","T">>}
RequirementTo(metrics, T) ==
    IF T = <<"A","D","R">> THEN metrics.requirement_to_ADR
    ELSE IF T = <<"Q","A">> THEN metrics.requirement_to_scenario
    ELSE metrics.requirement_to_test

\* S has a link to category T in either direction
LinkedEitherWay(items, forward, S, T) ==
    \/ \E r \in Range(forward[S]) : StartsWith(r, T)
    \/ \E n \in 1..Len(items) : StartsWith(items[n].id, T) /\ S \in Range(items[n].references)

\* C1: for each target prefix T of ADR, QA, TEST, a requirement item S is
\* counted in requirements_with_link of the requirement-to-T metric exactly
\* when forward[S] holds an id with prefix T or an item with prefix T lists S
\* in its references.
C1_SymmetricLinkCount ==
    traceability.exists =>
        \A T \in TargetPrefixes :
            LET items == traceability.items
                m == RequirementTo(traceability.metrics, T)
                reqs == {S \in ItemIds(items) : StartsWith(S, <<"R","E","Q">>)}
            IN /\ m.total_requirements = Cardinality(reqs)
               /\ m.requirements_with_link =
                    Cardinality({S \in reqs : LinkedEitherWay(items, traceability.forward, S, T)})
               /\ DOMAIN m.details = reqs
               /\ \A S \in reqs :
                    (m.details[S].forward_refs # <<>> \/ m.details[S].reverse_refs # <<>>)
                        <=> LinkedEitherWay(items, traceability.forward, S, T)

\* A requirement is counted as linked to an ADR although its own document
\* never mentions one: only the ADR item references it.
C1_Witness ==
    /\ traceability.exists
    /\ \E S \in DOMAIN traceability.metrics.requirement_to_ADR.details :
        /\ ~\E r \in Range(traceability.forward[S]) : StartsWith(r, <<"A","D","R">>)
        /\ traceability.metrics.requirement_to_ADR.details[S].reverse_refs # <<>>
        /\ traceability.metrics.requirement_to_ADR.requirements_with_link >= 1

\* C2: backward is exactly the inverse of forward; every id in a backward
\* list is an item id and no id is listed twice in one backward list.
C2_BackwardIsInverse ==
    traceability.exists =>
        LET fwd == traceability.forward
            bwd == traceability.backward
            ids == ItemIds(traceability.items)
            mentioned == DOMAIN bwd \cup UNION {Range(fwd[A]) : A \in DOMAIN fwd}
        IN /\ DOMAIN fwd = ids
           /\ \A A \in ids : \A X \in mentioned :
                (X \in Range(fwd[A])) <=> (X \in DOMAIN bwd /\ A \in Range(bwd[X]))
           /\ \A X \in DOMAIN bwd : Range(bwd[X]) \subseteq ids /\ NoRepeats(bwd[X])

\* Some identifier is referenced by two different items.
C2_Witness ==
    /\ traceability.exists
    /\ \E X \in DOMAIN traceability.backward : Len(traceability.backward[X]) >= 2

\* An item made from a test source file (below CODE_TEST_DIRS)
FromTestSource(item) == \E d \in 1..Len(CODE_TEST_DIRS) : Under(CODE_TEST_DIRS[d], item.path)
SourceText(item) == Content(FileAt(item.path))

\* C3 as stated: every item of the index, TEST items made from test source
\* files included, references exactly the identifiers of any category that
\* occur in its source text, minus its own id.
C3_AllIdentifiersOfSource ==
    specIndex.exists =>
        \A n \in 1..Len(specIndex.items) :
            LET item == specIndex.items[n]
            IN Range(item.references) = Range(RefFindAll(SourceText(item))) \ {item.id}

\* C3 amended: an item declared in a markdown document references exactly
\* the identifiers of any category in its document, minus its own id; a TEST
\* item made from a test source file references exactly the REQ-* identifiers
\* of that file; no item references itself.
C3_ReferencesOfSource ==
    specIndex.exists =>
        \A n \in 1..Len(specIndex.items) :
            LET item == specIndex.items[n]
            IN /\ Range(item.references) =
                    (IF FromTestSource(item)
                     THEN Range(ReqRefFindAll(SourceText(item)))
                     ELSE Range(RefFindAll(SourceText(item))) \ {item.id})
               /\ item.id \notin Range(item.references)

\* The index holds a markdown item whose document mentions its own id and
\* other ids, and a TEST item whose source file mentions a non-REQ id.
C3_Witness ==
    /\ specIndex.exists
    /\ \E n \in 1..Len(specIndex.items) :
        LET item == specIndex.items[n]
        IN ~FromTestSource(item) /\ item.references # <<>>
           /\ item.id \in Range(RefFindAll(SourceText(item)))
    /\ \E n \in 1..Len(specIndex.items) :
        LET item == specIndex.items[n]
        IN FromTestSource(item) /\ item.references # <<>>
           /\ \E r \in Range(RefFindAll(SourceText(item))) : r # item.id /\ ~StartsWith(r, <<"R","E","Q">>)

PrefixMetrics(metrics) == {metrics.str, metrics.requirement, metrics.arc, metrics.adr, metrics.qa, metrics.test}
PairMetrics(metrics) == {metrics.requirement_to_ADR, metrics.requirement_to_scenario, metrics.requirement_to_test}
PctOk(pct, with, total) ==
    /\ pct.den # 0
    /\ total = 0 => pct = [num |-> 100, den |-> 1]
    /\ total # 0 => pct = [num |-> with * 100, den |-> total] /\ 0 <= with /\ with <= total

\* C4: each of the nine coverage_pct values is exactly 100.0 when its source
\* count is 0, with no division by zero, and with_links / total * 100 with
\* 0 <= with_links <= total otherwise.
C4_CoveragePct ==
    traceability.exists =>
        /\ \A m \in PrefixMetrics(traceability.metrics) : PctOk(m.coverage_pct, m.with_links, m.total)
        /\ \A m \in PairMetrics(traceability.metrics) :
              PctOk(m.coverage_pct, m.requirements_with_link, m.total_requirements)

\* One category is empty and the requirement-to-ADR coverage is strictly
\* between 0 and 100.
C4_Witness ==
    /\ traceability.exists
    /\ traceability.metrics.str.total = 0
    /\ traceability.metrics.str.coverage_pct = [num |-> 100, den |-> 1]
    /\ LET m == traceability.metrics.requirement_to_ADR
       IN 0 < m.requirements_with_link /\ m.requirements_with_link < m.total_requirements

\* Positions of all_items that hold the first occurrence of their id
FirstOccurrences(all) == {k \in 1..Len(all) : \A j \in 1..(k - 1) : all[j].id # all[k].id}

\* C5: de-duplication keeps, for each id, exactly the first item met in
\* traversal order (with that item's references) in the original relative
\* order, every id of the list before de-duplication appears exactly once,
\* and duplicateIds is exactly the set of ids that occurred more than once.
C5_DedupKeepsFirst ==
    specIndex.exists =>
        LET all == allItems
            d == specIndex.items
            first == FirstOccurrences(all)
        IN /\ \A m, n \in 1..Len(d) : d[m].id = d[n].id => m = n
           /\ Len(d) = Cardinality(first)
           /\ \A m \in 1..Len(d) :
                \E k \in first : d[m] = all[k] /\ Cardinality({j \in first : j < k}) = m - 1
           /\ ItemIds(d) = ItemIds(all)
           /\ NoRepeats(specIndex.duplicateIds)
           /\ Range(specIndex.duplicateIds) =
                {id \in ItemIds(all) : Cardinality({k \in 1..Len(all) : all[k].id = id}) > 1}

\* Two documents declare the same id with different references; the first
\* one met is in the index and the id is reported.
C5_Witness ==
    /\ specIndex.exists
    /\ \E j, k \in 1..Len(allItems) :
        /\ j < k
        /\ allItems[j].id = allItems[k].id
        /\ allItems[j].references # allItems[k].references
        /\ allItems[j] \in Range(specIndex.items)
        /\ allItems[k] \notin Range(specIndex.items)
        /\ allItems[j].id \in Range(specIndex.duplicateIds)

\* C6: when the same identifier is declared in two different documents, the
\* recorded duplicate diagnostic names both source paths.
C6_DuplicateNamesBothPaths ==
    specIndex.exists =>
        \A j, k \in 1..Len(allItems) :
            (j < k /\ allItems[j].id = allItems[k].id /\ allItems[j].path # allItems[k].path) =>
                \E diag \in Range(specIndex.duplicateIds) :
                    Contains(diag, allItems[j].path) /\ Contains(diag, allItems[k].path)

\* C7: running spec_parser and build_trace_json again on the unchanged corpus
\* yields the same forward and backward maps, whatever order the directory
\* traversal enumerates the documents in.
C7_SameMapsOnRerun ==
    [][(traceability.exists /\ traceability'.exists /\ corpus' = corpus) =>
        (traceability'.forward = traceability.forward /\ traceability'.backward = traceability.backward)]_vars

PlaceholderTokens == {<<"A","D","R","-","X","X","X">>, <<"R","E","Q","-","F","-","0","0","0">>, <<"R","E","Q","-","N","F","-","0","0","0">>}

\* C8: placeholder tokens of a scanned document are no item id, in no
\* reference list and in no index or matrix entry.
C8_NoPlaceholderIdentifiers ==
    /\ specIndex.exists =>
        \A n \in 1..Len(specIndex.items) :
            /\ specIndex.items[n].id \notin PlaceholderTokens
            /\ Range(specIndex.items[n].references) \cap PlaceholderTokens = {}
    /\ traceability.exists =>
        (DOMAIN traceability.forward \cup DOMAIN traceability.backward) \cap PlaceholderTokens = {}
    /\ reports.exists =>
        \A n \in 1..Len(reports.matrix) :
            /\ reports.matrix[n].req \notin PlaceholderTokens
            /\ Range(reports.matrix[n].linked) \cap PlaceholderTokens = {}

\* Requirement r is linked to an identifier of the tracked category key: both
\* occur in one scanned document
LinkedToCategory(index, key, r) == LinkedOf(index, key, r) # {}

\* C9: a requirement is listed under requirements_no_links exactly when it has
\* no link to an identifier of another tracked category (ADR, component,
\* scenario or test); an ADR, component or scenario is listed under its
\* *_no_req list exactly when no requirement is linked to it.
C9_OrphanReport ==
    (reports.exists /\ ~reports.placeholder) =>
        LET index == MatrixIndex
            reqs == all_requirements(index)
            NoReqList(key) ==
                IF key = "adr" THEN reports.orphans.adrs_no_req
                ELSE IF key = "component" THEN reports.orphans.components_no_req
                ELSE reports.orphans.scenarios_no_req
        IN /\ \A r \in reqs :
                (r \in Range(reports.orphans.requirements_no_links))
                    <=> ~\E key \in {"adr", "component", "scenario", "test"} : LinkedToCategory(index, key, r)
           /\ \A key \in {"adr", "component", "scenario"} : \A x \in index[key] :
                (x \in Range(NoReqList(key))) <=> ~\E r \in reqs : x \in LinkedOf(index, key, r)

\* A document the claim calls excluded: below the prompts path, a template or
\* instruction file, or with front matter specType: guidance
IsExcluded == [f \in Files, t \in Readable |-> is_guidance(PathOf[f], TextOf[t]) \/ is_ignored(PathOf[f])]
OccursOutsideExcluded(id) == \E f \in Present : ~IsExcluded[f, corpus[f]] /\ Contains(Content(f), id)

\* C10: identifiers that occur only in excluded documents never enter the
\* index, graph or matrix, and every other markdown document below the
\* scanned roots contributes its identifiers.
C10_ExcludedDocuments ==
    /\ specIndex.exists =>
        /\ \A id \in ItemIds(specIndex.items) : OccursOutsideExcluded(id)
        /\ \A f \in Present :
            ((\E b \in 1..Len(SCAN_DIRS) : Under(SCAN_DIRS[b], PathOf[f]))
                /\ EndsWith(PathOf[f], <<".","m","d">>) /\ ~IsExcluded[f, corpus[f]]) =>
                    ItemIds(ParsedFile[f, corpus[f]]) \subseteq ItemIds(specIndex.items)
    /\ traceability.exists => \A id \in DOMAIN traceability.forward : OccursOutsideExcluded(id)
    /\ reports.exists => \A n \in 1..Len(reports.matrix) : OccursOutsideExcluded(reports.matrix[n].req)

AllMetrics(metrics) ==
    {[total |-> m.total, coverage_pct |-> m.coverage_pct] : m \in PrefixMetrics(metrics)}
        \cup {[total |-> m.total_requirements, coverage_pct |-> m.coverage_pct] : m \in PairMetrics(metrics)}

\* C11: with an empty corpus (scan roots missing or holding no identifier)
\* spec_parser and build_trace_json exit 0 and emit no item, empty forward and
\* backward maps and metrics with total 0 and coverage 100; the matrix
\* generator exits 0 and writes the placeholder reports exactly when no
\* identifier of any pattern was found and ALLOW_EMPTY_SPECS is set, and a
\* matrix without rows otherwise.
C11_EmptyCorpusNotFatal ==
    /\ exitCode["spec_parser"] \in {-1, 0}
    /\ specIndex.exists => (exitCode["spec_parser"] = 0 /\ specIndex.items = <<>> /\ specIndex.duplicateIds = <<>>)
    /\ traceability.exists =>
        /\ exitCode["build_trace_json"] = 0
        /\ traceability.items = <<>>
        /\ DOMAIN traceability.forward = {}
        /\ DOMAIN traceability.backward = {}
        /\ \A m \in AllMetrics(traceability.metrics) : m.total = 0 /\ m.coverage_pct = [num |-> 100, den |-> 1]
    /\ exitCode["generate_traceability_matrix"] \in {-1, 0}
    /\ reports.exists =>
        /\ exitCode["generate_traceability_matrix"] = 0
        /\ reports.placeholder <=> ((\A key \in PatternKeys : MatrixIndex[key] = {}) /\ allowEmptySpecs)
        /\ ~reports.placeholder => (reports.matrix = <<>> /\ reports.orphans = NoOrphans)

\* A repository with a document but no identifier went through the three
\* stages, the matrix generator without ALLOW_EMPTY_SPECS.
C11_Witness ==
    /\ Present # {}
    /\ specIndex.exists /\ traceability.exists /\ reports.exists
    /\ ~allowEmptySpecs /\ ~reports.placeholder /\ reports.matrix = <<>>
    /\ exitCode["spec_parser"] = 0 /\ exitCode["build_trace_json"] = 0

\* The scanned documents, and the ids of one that could be read
ScannedAsMd(f) == \E b \in 1..Len(SCAN_DIRS) : IsScannedMd[b, f]
ScannedAsTest(f) == \E d \in 1..Len(CODE_TEST_DIRS), e \in 1..Len(TEST_EXTS) : IsScannedTest[d, e, f]
ScannedReadable(f) == corpus[f] \in Readable /\ (ScannedAsMd(f) \/ ScannedAsTest(f))
IdsOfDocument(f) ==
    (IF ScannedAsMd(f) THEN ItemIds(ParsedFile[f, corpus[f]]) ELSE {})
        \cup (IF ScannedAsTest(f) THEN ItemIds(ParsedTest[f, corpus[f]]) ELSE {})

\* C12: when reading or parsing one document fails during the spec_parser
\* scan, only that document is skipped: the items of every other document
\* are in the index, the index is written and the exit code is 0.
C12_FailedDocumentSkipped ==
    exitCode["spec_parser"] # -1 =>
        /\ exitCode["spec_parser"] = 0
        /\ specIndex.exists
        /\ \A f \in Present :
            ScannedReadable(f) => IdsOfDocument(f) \subseteq ItemIds(specIndex.items)
        /\ \A n \in 1..Len(specIndex.items) : corpus[FileAt(specIndex.items[n].path)] \in Readable

\* One scanned document could not be read, another one holds identifiers, and
\* the index with the items of the other one was written.
C12_Witness ==
    /\ \E f \in Present : corpus[f] = "unreadable" /\ (ScannedAsMd(f) \/ ScannedAsTest(f))
    /\ \E f \in Present : ScannedReadable(f) /\ IdsOfDocument(f) # {}
    /\ specIndex.exists /\ specIndex.items # <<>>
    /\ exitCode["spec_parser"] = 0

CategoriesOf(id) == {k \in 1..Len(PREFIX_ORDER) : StartsWith(id, PREFIX_ORDER[k])}

\* C13: every item id of the index, ids taken from a front matter 'id' field
\* included, belongs to exactly one of the six prefix categories, so the six
\* per-prefix totals of the metrics add up to the number of items.
C13_ExactlyOneCategory ==
    /\ specIndex.exists =>
        \A n \in 1..Len(specIndex.items) : Cardinality(CategoriesOf(specIndex.items[n].id)) = 1
    /\ traceability.exists =>
        LET m == traceability.metrics
        IN m.str.total + m.requirement.total + m.arc.total + m.adr.total + m.qa.total + m.test.total
              = Len(traceability.items)

TraceUnlinkedRan ==
    \/ unlinked' # unlinked
    \/ exitCode'["trace_unlinked_requirements"] # exitCode["trace_unlinked_requirements"]

\* The items trace_unlinked_requirements works from
TraceGraphItems == IF traceability.exists THEN traceability.items ELSE specIndex.items

\* C15: trace_unlinked_requirements reports exactly the requirements that
\* build_trace_json does not count as linked to an ADR (unlinked plus
\* requirements_with_link is total_requirements), reports every requirement
\* without any forward or backward edge, and rebuilds the same list from
\* spec-index.json as it reads from traceability.json.
C15_UnlinkedMatchesAdrMetric ==
    [][ /\ (TraceUnlinkedRan /\ exitCode'["trace_unlinked_requirements"] = 0) =>
            LET items == TraceGraphItems
                forward == Forward(items)
                reqs == {S \in ItemIds(items) : StartsWith(S, <<"R","E","Q">>)}
            IN /\ NoRepeats(unlinked')
               /\ Range(unlinked') = {S \in reqs : ~LinkedEitherWay(items, forward, S, <<"A","D","R">>)}
               /\ traceability.exists =>
                    LET m == traceability.metrics.requirement_to_ADR
                    IN Len(unlinked') + m.requirements_with_link = m.total_requirements
               /\ \A S \in reqs :
                    (forward[S] = <<>> /\ \A n \in 1..Len(items) : S \notin Range(items[n].references))
                        => S \in Range(unlinked')
        /\ (TraceUnlinkedRan /\ exitCode'["trace_unlinked_requirements"] = 1) =>
            (~traceability.exists /\ ~specIndex.exists)
        /\ traceability'.exists =>
            UnlinkedOf(DetailsFromIndex(traceability'.items))
                = UnlinkedOf(traceability'.metrics.requirement_to_ADR.details)
      ]_vars

\* The helper read traceability.json and reported a requirement that has no
\* edge at all.
C15_Witness ==
    /\ traceability.exists
    /\ exitCode["trace_unlinked_requirements"] = 0
    /\ unlinked = UnlinkedOf(traceability.metrics.requirement_to_ADR.details)
    /\ \E S \in Range(unlinked) :
        /\ traceability.forward[S] = <<>>
        /\ S \notin DOMAIN traceability.backward

\* Requirement S has a link of any kind
LinkedAnyWay(items, forward, S) ==
    forward[S] # <<>> \/ \E n \in 1..Len(items) : S \in Range(items[n].references)

\* C16: metrics.requirement counts every requirement with at least one link
\* of any kind; every requirement counted by one of the three requirement_to_*
\* metrics is counted in metrics.requirement.with_links, so the overall
\* coverage is never below a pair coverage.
C16_OverallCountsAnyLink ==
    traceability.exists =>
        LET items == traceability.items
            m == traceability.metrics
            reqs == {S \in ItemIds(items) : StartsWith(S, <<"R","E","Q">>)}
        IN /\ m.requirement.with_links =
                Cardinality({S \in reqs : LinkedAnyWay(items, traceability.forward, S)})
           /\ \A p \in PairMetrics(m) :
                /\ p.requirements_with_link <= m.requirement.with_links
                /\ p.coverage_pct.num * m.requirement.coverage_pct.den
                     <= m.requirement.coverage_pct.num * p.coverage_pct.den

\* C18: validate-traceability exits 1 if a requirement row of the generated
\* matrix has no linked element and exits 0 only when every requirement row
\* has one, for the requirements of every pattern the generator treats as a
\* requirement (REQ-*, IR-*, VR-*, AC-*).
C18_ValidatorFailsOnUnlinkedRow ==
    /\ (~reports.exists /\ exitCode["validate_traceability"] # -1) => exitCode["validate_traceability"] = 1
    /\ (reports.exists /\ exitCode["validate_traceability"] = 0) =>
        \A n \in 1..Len(reports.matrix) : reports.matrix[n].linked # <<>>

\* The coverage_pct of a metric under its name or else its alias, -1 when
\* neither has one
CoverageFound(metrics, name, alias) ==
    IF name \in DOMAIN metrics /\ metrics[name] # -1 THEN metrics[name]
    ELSE IF alias \in DOMAIN metrics /\ metrics[alias] # -1 THEN metrics[alias]
    ELSE -1

\* The documented codes of the thresholds that fail
FailedCodes(metrics, args) ==
    LET below(name, alias, min) ==
            CoverageFound(metrics, name, alias) # -1 /\ CoverageFound(metrics, name, alias) < min
    IN (IF below("requirement", "REQ", args["min_req"]) THEN {2} ELSE {})
       \cup (IF below("requirement_to_ADR", "req_to_adr", args["min_req_adr"]) THEN {3} ELSE {})
       \cup (IF below("requirement_to_scenario", "req_to_scenario", args["min_req_scenario"]) THEN {4} ELSE {})
       \cup (IF below("requirement_to_test", "req_to_test", args["min_req_test"]) THEN {5} ELSE {})

\* C17: validate-trace-coverage returns 1 when traceability.json is missing
\* or has no overall requirement coverage; otherwise 0 exactly when every
\* present metric is at or above its threshold, and otherwise the code of a
\* threshold that failed (2 requirements, 3 ADR, 4 scenario, 5 test), the
\* largest one when several fail; an absent ADR, scenario or test metric
\* causes no failure.
C17_CoverageExitCode ==
    coverage.rc # -1 =>
        IF ~coverage.trace.exists \/ CoverageFound(coverage.trace.metrics, "requirement", "REQ") = -1
        THEN coverage.rc = 1
        ELSE LET failed == FailedCodes(coverage.trace.metrics, coverage.args)
             IN /\ coverage.rc = 0 <=> failed = {}
                /\ failed # {} => coverage.rc = Max(failed)

\* The ADR metric is absent, the requirement and scenario thresholds both
\* fail, and the run returned 4.
C17_Witness ==
    /\ coverage.rc = 4
    /\ coverage.trace.exists
    /\ "requirement_to_ADR" \notin DOMAIN coverage.trace.metrics
    /\ "req_to_adr" \notin DOMAIN coverage.trace.metrics
    /\ FailedCodes(coverage.trace.metrics, coverage.args) = {2, 4}

\* A chain is a real cycle of the downstream-link graph: it closes on its
\* first element and each step is a downstream link of a database entry
IsCycle(db, p) ==
    /\ Len(p) >= 2
    /\ p[1] = p[Len(p)]
    /\ \A i \in 1..(Len(p) - 1) : p[i] \in DOMAIN db /\ p[i + 1] \in db[p[i]].downstream_links
CyclesOf(db) == {p \in UNION {[1..n -> ReqIds] : n \in 2..(Cardinality(ReqIds) + 1)} : IsCycle(db, p)}

\* C14: for every requirements database the circular dependency detection
\* reports at least one chain exactly when the downstream-link graph has a
\* directed cycle, and every chain it reports is a real cycle (first and last
\* element equal, each consecutive pair a downstream link).
C14_CyclesReportedExactly ==
    integrity.outcome # "none" =>
        /\ integrity.outcome = "returned"
        /\ integrity.circular_deps # <<>> <=> CyclesOf(integrity.requirements_db) # {}
        /\ \A i \in 1..Len(integrity.circular_deps) :
              IsCycle(integrity.requirements_db, integrity.circular_deps[i])

\* C20: a run of enforce-traceability with --dry-run or --read-only creates
\* no backup and writes or modifies no file of the repository, whichever of
\* the other options are given.
C20_DryRunLeavesRepository ==
    (enforcer.ran /\ (enforcer.args["dry_run"] \/ enforcer.args["read_only"])) =>
        /\ ~enforcer.backup
        /\ enforcer.written = {}
        /\ ~enforcer.restored

\* C19: the identifiers the registry hands out are unique: over any sequence
\* of get_next_functional_ids, get_next_non_functional_ids and
\* scan_existing_ids on one registry, no identifier is returned by two
\* different reservation calls.
C19_ReservedIdsUnique ==
    \A i, j \in 1..Len(registry.returned) :
        i # j => Range(registry.returned[i]) \cap Range(registry.returned[j]) = {}

\* A reservation call has returned: its list is the last of the lists handed out
Reserved == Len(registry'.returned) = Len(registry.returned) + 1

\* C25: a reservation of count >= 0 functional identifiers returns exactly
\* the count identifiers REQ-F-n for n from next_functional to
\* next_functional + count - 1 in increasing order, advances next_functional
\* by count and leaves next_non_functional, both maps of registered ids and
\* the conflicts unchanged; the non-functional reservation does the same with
\* the roles exchanged, and no reservation lowers next_functional.
C25_ReservationFrame ==
    [][Reserved =>
        LET ids == registry'.returned[Len(registry'.returned)]
            count == Len(ids)
            old == registry.registry
            new == registry'.registry
        IN /\ new.functional_ids = old.functional_ids
           /\ new.non_functional_ids = old.non_functional_ids
           /\ new.conflicts = old.conflicts
           /\ new.next_functional >= old.next_functional
           /\ \/ /\ ids = [i \in 1..count |-> FunctionalId(old.next_functional + i - 1)]
                 /\ new.next_functional = old.next_functional + count
                 /\ new.next_non_functional = old.next_non_functional
              \/ /\ ids = [i \in 1..count |-> NonFunctionalId(old.next_non_functional + i - 1)]
                 /\ new.next_non_functional = old.next_non_functional + count
                 /\ new.next_functional = old.next_functional]_vars

\* After a scan that recorded identifiers and a conflict, a reservation of
\* no identifier, one of two functional and one of a non-functional identifier
C25_Witness ==
    /\ registry.registry.conflicts # <<>>
    /\ registry.registry.functional_ids # {}
    /\ Len(registry.returned) = 3
    /\ registry.returned[1] = <<>>
    /\ registry.returned[2] = <<FunctionalId(3), FunctionalId(4)>>
    /\ registry.returned[3] = <<NonFunctionalId(1)>>
    /\ registry.registry.next_functional = 5
    /\ registry.registry.next_non_functional = 2

\* A step taken without spec-index.json leaves traceability.json as it is
\* and gives build_trace_json no return code but 1; a step that changes the
\* record of validate-trace-coverage while traceability.json is missing
\* returns 1 and writes nothing
StageStepInOrder ==
    /\ ~specIndex.exists =>
          /\ traceability' = traceability
          /\ exitCode'["build_trace_json"] \in {exitCode["build_trace_json"], 1}
    /\ (~traceability.exists /\ coverage' # coverage) =>
          /\ coverage'.rc = 1
          /\ UNCHANGED pipelineVars

\* C24: from an empty build directory, a stage run before its predecessor
\* has produced its output returns 1 and writes nothing: build_trace_json
\* without spec-index.json leaves traceability.json as it is, so
\* traceability.json exists only after spec_parser and then build_trace_json
\* have completed, and validate-trace-coverage returns 1 until then.
C24_StagesInOrder ==
    /\ [](traceability.exists =>
            (specIndex.exists /\ exitCode["spec_parser"] = 0 /\ exitCode["build_trace_json"] = 0))
    /\ []((coverage.rc # -1 /\ ~traceability.exists) => coverage.rc = 1)
    /\ [][StageStepInOrder]_vars

\* build_trace_json ran first and returned 1, spec_parser then wrote the
\* index of a repository with identifiers, and validate-trace-coverage
\* returned 1 for want of traceability.json
C24_Witness ==
    /\ exitCode["build_trace_json"] = 1
    /\ ~traceability.exists
    /\ specIndex.exists /\ specIndex.items # <<>>
    /\ coverage.rc = 1

\* C23: gen_tests is idempotent: no step removes or changes a file of the
\* generated directory, so an existing test file is never overwritten; after
\* a run that returned 0 a further run on the index creates nothing; and every
\* item of the index whose id starts with REQ has the file of its name
FilesKept == \A f \in genTests.files : f \in genTests'.files
C23_GenTestsIdempotent ==
    /\ [][FilesKept]_vars
    /\ []((genTests.rc = 0 /\ specIndex.exists) =>
            /\ gen_tests_loop(specIndex.items, 1, genTests.files) = genTests.files
            /\ \A n \in 1..Len(specIndex.items) :
                 StartsWith(specIndex.items[n].id, REQ_PREFIX)
                    => FileExists(genTests.files, TestFileName(specIndex.items[n].id)))
    /\ [](\A f, g \in genTests.files : f.name = g.name => f = g)

\* C23: a run over an index that holds REQ-F-001 and REQ-F-002 kept the
\* developer's test of REQ-F-001 and wrote the skeleton of REQ-F-002
C23_Witness ==
    /\ genTests.rc = 0
    /\ CustomTest \in genTests.files
    /\ \E n \in 1..Len(specIndex.items) : specIndex.items[n].id = <<"R","E","Q","-","F","-","0","0","1">>
    /\ \E n \in 1..Len(specIndex.items) :
         /\ specIndex.items[n].id = <<"R","E","Q","-","F","-","0","0","2">>
         /\ [name |-> <<"t","e","s","t","_","r","e","q","_","f","_","0","0","2",".","p","y">>, content |-> SkeletonText(specIndex.items[n])] \in genTests.files

\* C22: guard_command never executes a command detected as a bulk operation
\* that would modify more files than MAX_AUTO_MODIFY before the user has
\* confirmed; when the user declines, it returns 1 and the command has not
\* been run at any point.
C22_NoBulkRunBeforeConfirmation ==
    (/\ guard.pc # "idle"
     /\ is_bulk_operation(guard.command)
     /\ Cardinality(guard.effect \ guard.initial) > MAX_AUTO_MODIFY) =>
        /\ \A i \in 1..Len(guard.runs) :
             guard.runs[i].argv = guard.command => guard.runs[i].confirmed
        /\ guard.declined =>
             /\ guard.rc = 1
             /\ \A i \in 1..Len(guard.runs) : guard.runs[i].argv # guard.command

\* C21: backup followed by rollback is a round trip: after a rollback_changes
\* that returned True, each phase directory and the reports directory holds
\* exactly what it held when the backup was taken, whatever was added,
\* changed or removed in between.
C21_RollbackRoundTrip ==
    (safety.rolled /\ safety.rc = 1) =>
        \A d \in BackedUpDirs : safety.tree[d] = safety.backup[d]

====
